---- MODULE Spec2Model ----
(***************************************************************************)
(* A model of the test harness of cormen_lib (test_utils.py) and of the    *)
(* containers it inspects.                                                 *)
(*                                                                         *)
(*   Spec         the batch runner: build_and_run_watched_suite,           *)
(*                __run_timed_test and the _Watcher aggregator             *)
(*   SpecEquals   cormen_equals on two Queues or two Stacks                *)
(*   SpecGeneric  generic_test: one call on a candidate function           *)
(*   SpecValues   cormen_equals and to_cormen_string on two Arrays, two      *)
(*                one-row Array2Ds or two Sets                             *)
(*   SpecBehavior behavior_test: one call, one step of the list at a time  *)
(*   SpecHarness  a test body that calls generic_test or behavior_test once*)
(*   SpecChain    equality and rendering of chains of SinglyLinkedListNode,*)
(*                one loop iteration at a time (SpecChainFair: with the    *)
(*                interpreter always taking the next step)                 *)
(*   SpecGraph    a Graph of cormen_lib.graphs or of dalpy.graphs under    *)
(*                add_vertex, add_edge, adj and to_cormen_string           *)
(*   SpecTree     __binary_tree_to_string, one loop iteration at a time    *)
(*   SpecContainer a Stack, a Queue or a PriorityQueue under its methods   *)
(*                and to_cormen_string                                     *)
(*   SpecOrdinal  one call of __append_int                                 *)
(*   SpecSet      two Set objects under union, difference and iteration    *)
(***************************************************************************)
EXTENDS Integers, Sequences, FiniteSets, TLC

\* ------------------------------------------------------------------ bounds

\* Number of tests in one batch.
NTests == 3

\* Longest Queue or Stack compared.
MaxLen == 2

\* Number of cormen_equals calls made on one pair of operands.
MaxCalls == 2

\* Most arguments handed to the candidate of generic_test, and longest
\* enforce_no_mod list.
MaxArgs == 2

\* Longest list of steps handed to behavior_test.
MaxSteps == 2

\* Number of SinglyLinkedListNode objects that exist.
MaxNodes == 3

\* Number of add_vertex and add_edge calls made on one Graph.
MaxGraphOps == 5

\* Number of levels of the binary trees rendered.
MaxDepth == 3

\* Number of calls made on one Stack, Queue or PriorityQueue.
MaxContainerOps == 4

\* Largest argument position handed to __append_int.
MaxOrdinal == 125

\* Number of calls made on the two Set objects.
MaxSetOps == 3

\* --------------------------------------------------------------- variables

VARIABLES
    \* build_and_run_watched_suite's arguments
    timeout,        \* "None", or the number of seconds as a string
    show_tb,        \* BOOLEAN
    grading_file,   \* "None" or a path
    \* the batch loop
    pc,             \* where the parent is
    idx,            \* the position in the suite of the current test
    child,          \* the state of the Process p of the current test
    \* _Watcher
    test_ids,
    results,
    details,
    \* what was printed or written when the batch ended
    report,
    \* history of the run: what each invocation of each test did
    childRuns,      \* test -> number of invocations of test.run in a child
    parentRuns,     \* test -> number of invocations of test.run in the parent
    childOutcome,   \* test -> outcome of its invocation in the child
    parentOutcome,  \* test -> outcome of its invocation in the parent
    timedOut,       \* the tests found alive after join(timeout)
    raised,         \* the exception that left build_and_run_watched_suite
    lingering       \* the tests whose child was sent SIGTERM by
                    \* p.terminate() and has not ended yet

runnerVars == <<timeout, show_tb, grading_file, pc, idx, child, test_ids,
                results, details, report, childRuns, parentRuns,
                childOutcome, parentOutcome, timedOut, raised,
               lingering>>

\* cormen_equals on two Queues or two Stacks
VARIABLES
    eqKind,         \* "Queue" or "Stack": the class of both operands
    heap,           \* object -> its __buf, index 1 first
    eqFirst,        \* the object passed as `first`
    eqSecond,       \* the object passed as `second`
    eqPre,          \* the heap when the last call was made
    eqRet,          \* what the last call returned or raised ("none": no call)
    eqCalls         \* the number of calls made

equalsVars == <<eqKind, heap, eqFirst, eqSecond, eqPre, eqRet, eqCalls>>

\* generic_test
VARIABLES
    gtParams,       \* params: [is_list, items], the candidate's arguments
    gtExpected,     \* expected: a value, or an exception type
    gtComparator,   \* custom_comparator: "None", or the comparator given
    gtInPlace,      \* in_place
    gtNoMod,        \* enforce_no_mod: [is_bool, flag, flags]
    gtMethod,       \* method: what the candidate did when it was invoked
    gtOutcome       \* how generic_test ended ("none": not called yet)

genericVars == <<gtParams, gtExpected, gtComparator, gtInPlace,
                 gtNoMod, gtMethod, gtOutcome>>

\* chains of SinglyLinkedListNode: __singly_linked_list_equals and
\* __singly_linked_list_to_string
VARIABLES
    chNext,         \* node -> its `next` (Nil for None)
    chData,         \* node -> its `data`
    chOp,           \* "equals" or "to_string": the function called
    chFirst,        \* the argument `expected`, or `head`
    chSecond,       \* the argument `actual`
    chPc,           \* "start", "loop" or "done"
    chExpected,     \* the local `expected`, or `head`
    chActual,       \* the local `actual`
    chSeen,         \* the local `seen`
    chOut,          \* the local `out`
    chRet           \* what __singly_linked_list_equals returned

chainVars == <<chNext, chData, chOp, chFirst, chSecond, chPc, chExpected,
               chActual, chSeen, chOut, chRet>>

\* cormen_equals and to_cormen_string on two Arrays, Array2Ds or Sets
VARIABLES
    valStore,       \* inner Array object -> its elements
    valFirst,       \* the argument `first`
    valSecond,      \* the argument `second`
    valRet,         \* what cormen_equals returned ("none": no call)
    valStr          \* to_cormen_string of `first` and of `second`

valueVars == <<valStore, valFirst, valSecond, valRet, valStr>>

\* behavior_test
VARIABLES
    btBehavior,     \* behavior: the list of steps
    btPc,           \* "loop" or "done"
    btIdx,          \* the position in the list of the step `event`
    btExpected,     \* the local `expected`
    btParams,       \* the local `params`: the step whose PARAMETERS it
                    \* holds, 0 for None
    btResult,       \* the local `result`
    btMsg,          \* the local `msg`, line by line
    btInvoked,      \* the steps whose method was entered, in order
    btOutcome       \* how behavior_test ended ("none": it has not)

behaviorVars == <<btBehavior, btPc, btIdx, btExpected, btParams, btResult,
                  btMsg, btInvoked, btOutcome>>

\* A Graph under construction, and the last call made on it.
VARIABLES
    grImpl,         \* the class of the Graph: "cormen_lib" or "dalpy"
    grVertices,     \* the keys of __adj_lists, in dict order
    grAdj,          \* __adj_lists: vertex -> stored adjacency (a list in
                    \* cormen_lib, a chain read from its head in dalpy)
    grWeights,      \* __edge_weights: (source, dest) -> weight ("absent"
                    \* when the key is not there)
    grLog,          \* vertex -> the destinations of the add_edge calls made
                    \* from it since it was added, in call order
    grOps,          \* number of add_vertex and add_edge calls made
    grOp,           \* the last call made
    grArg,          \* the vertex, or "source,dest", handed to the last adj or weight call
    grRet,          \* what the last adj or weight call returned
    grStr,          \* the string the last to_cormen_string call returned
    grRaised        \* the error the last call raised ("None": it returned)

graphVars == <<grImpl, grVertices, grAdj, grWeights, grLog, grOps, grOp,
               grArg, grRet, grStr, grRaised>>

\* A binary tree and one call of __binary_tree_to_string on its root.
VARIABLES
    trNodes,        \* the positions that hold a BinaryTreeNode: 1 is the
                    \* root, 2p and 2p+1 the left and right child of p
    trPc,           \* "start", "while", "for" or "done"
    trQ,            \* the local q: positions, TreeNone for None
    trK,            \* iterations the for loop has left
    trAllNone,      \* the local all_none_level
    trOut,          \* the local out_buf
    trStr           \* the string returned

treeVars == <<trNodes, trPc, trQ, trK, trAllNone, trOut, trStr>>

\* One Stack, Queue or PriorityQueue and the calls made on it.
VARIABLES
    ctKind,         \* the class of the container
    ctBuf,          \* its __buf (a PriorityQueue holds <<priority, element>>)
    ctHist,         \* the calls made so far: the method, the value handed
                    \* in or returned, the priority, the error raised
    ctStr,          \* the string the last to_cormen_string call returned
    ctCopy          \* the Stack the last copy_stack call returned

containerVars == <<ctKind, ctBuf, ctHist, ctStr, ctCopy>>

\* One call of __append_int.
VARIABLES
    ordNum,         \* the argument num
    ordRet          \* the suffix returned ("none": not called yet)

ordinalVars == <<ordNum, ordRet>>

\* Two Set objects and the calls made on them.
VARIABLES
    stObjs,         \* object -> the keys of its __set, in dict order
    stOps,          \* number of calls made
    stOp,           \* the last call: method, the Set it was called on, the
                    \* Set handed in, the error raised
    stIter          \* what the last iteration yielded

setVars == <<stObjs, stOps, stOp, stIter>>

vars == <<runnerVars, equalsVars, genericVars, chainVars,
          valueVars, behaviorVars, graphVars, treeVars,
          containerVars, ordinalVars, setVars>>

notRunnerVars == <<equalsVars, genericVars, chainVars, valueVars,
                   behaviorVars, graphVars, treeVars, containerVars,
                   ordinalVars, setVars>>

notEqualsVars == <<runnerVars, genericVars, chainVars, valueVars,
                   behaviorVars, graphVars, treeVars, containerVars,
                   ordinalVars, setVars>>

notGenericVars == <<runnerVars, equalsVars, chainVars, valueVars,
                    behaviorVars, graphVars, treeVars, containerVars,
                    ordinalVars, setVars>>

notChainVars == <<runnerVars, equalsVars, genericVars, valueVars,
                  behaviorVars, graphVars, treeVars, containerVars,
                  ordinalVars, setVars>>

notValueVars == <<runnerVars, equalsVars, genericVars, chainVars,
                  behaviorVars, graphVars, treeVars, containerVars,
                  ordinalVars, setVars>>

notBehaviorVars == <<runnerVars, equalsVars, genericVars, chainVars,
                     valueVars, graphVars, treeVars, containerVars,
                     ordinalVars, setVars>>

notGraphVars == <<runnerVars, equalsVars, genericVars, chainVars,
                  valueVars, behaviorVars, treeVars, containerVars,
                  ordinalVars, setVars>>

notTreeVars == <<runnerVars, equalsVars, genericVars, chainVars,
                 valueVars, behaviorVars, graphVars, containerVars,
                 ordinalVars, setVars>>

notContainerVars == <<runnerVars, equalsVars, genericVars, chainVars,
                      valueVars, behaviorVars, graphVars, treeVars,
                      ordinalVars, setVars>>

notOrdinalVars == <<runnerVars, equalsVars, genericVars, chainVars,
                    valueVars, behaviorVars, graphVars, treeVars,
                    containerVars, setVars>>

notSetVars == <<runnerVars, equalsVars, genericVars, chainVars,
                valueVars, behaviorVars, graphVars, treeVars,
                containerVars, ordinalVars>>

\* ---------------------------------------------------------------- helpers

RECURSIVE SumSeq(_)
SumSeq(s) == IF s = <<>> THEN 0 ELSE Head(s) + SumSeq(Tail(s))

Count(s, x) == Cardinality({k \in 1..Len(s) : s[k] = x})

Tests == 1..NTests

\* What one invocation of a test's entry point can end with.  A candidate that
\* hangs ends with nothing.
Outcomes == {"pass", "fail", "error"}

\* -------------------------------------------------------------- _Watcher

\* _Watcher.parse_id: the test's id without its module.
parse_id(test) == test

\* The exception tuple unittest hands to addFailure and addError:
\* sys.exc_info(), three entries.
ExcInfo(outcome) ==
    IF outcome = "fail" THEN <<"AssertionError", "assertion failed", "tb">>
    ELSE <<"Exception", "unexpected", "tb">>

\* The tuple __run_timed_test hands to addError on a timeout: two entries.
TimeoutErr == <<"_TestTimeoutError", "Test timed out">>

Watcher == [test_ids |-> test_ids, results |-> results, details |-> details]

\* Each add* returns the watcher it leaves behind and what it raised.
addSuccess(w, test) ==
    [w |-> [w EXCEPT !.test_ids = Append(@, parse_id(test)),
                     !.results = Append(@, 1)],
     raised |-> "None"]

addFailure(w, test, err) ==
    LET w1 == [w EXCEPT !.test_ids = Append(@, parse_id(test)),
                        !.results = Append(@, 0)]
    IN IF show_tb /\ Len(err) < 3
       THEN [w |-> w1, raised |-> "IndexError"]
       ELSE [w |-> [w1 EXCEPT !.details =
                        Append(@, <<"description",
                                    <<err[2], IF show_tb THEN err[3] ELSE "">>,
                                    parse_id(test)>>)],
             raised |-> "None"]

addError(w, test, err) ==
    LET w1 == [w EXCEPT !.test_ids = Append(@, parse_id(test)),
                        !.results = Append(@, 0)]
    IN IF show_tb /\ Len(err) < 3
       THEN [w |-> w1, raised |-> "IndexError"]
       ELSE [w |-> [w1 EXCEPT !.details =
                        Append(@, <<"description", err[1],
                                    <<err[2], IF show_tb THEN err[3] ELSE "">>,
                                    parse_id(test)>>)],
             raised |-> "None"]

\* TestCase.run(result): the outcome of the test goes to the result object.
Record(w, test, outcome) ==
    CASE outcome = "pass"  -> addSuccess(w, test)
      [] outcome = "fail"  -> addFailure(w, test, ExcInfo(outcome))
      [] outcome = "error" -> addError(w, test, ExcInfo(outcome))

print_columns(w) ==
    [kind |-> "columns", header |-> w.test_ids, row |-> w.results]

print_log(w) ==
    [kind |-> "log",
     entries |-> [k \in 1..Len(w.details) |->
                    IF Len(w.details[k]) = 3 THEN "test failed" ELSE "raised"],
     passed |-> SumSeq(w.results),
     total |-> Len(w.results)]

\* ------------------------------------------------------- the batch runner

RunnerInit ==
    /\ timeout \in {"None", "2"}
    /\ show_tb \in BOOLEAN
    /\ grading_file \in {"None", "grades.csv"}
    /\ pc = "loop"
    /\ idx = 1
    /\ child = "none"
    /\ test_ids = <<>>
    /\ results = <<>>
    /\ details = <<>>
    /\ report = [kind |-> "none"]
    /\ childRuns = [t \in Tests |-> 0]
    /\ parentRuns = [t \in Tests |-> 0]
    /\ childOutcome = [t \in Tests |-> "none"]
    /\ parentOutcome = [t \in Tests |-> "none"]
    /\ timedOut = {}
    /\ raised = "None"
    /\ lingering = {}

\* __run_timed_test, timeout is None: test.run(watcher) starts in the parent.
ParentStart ==
    /\ pc = "loop" /\ idx <= NTests
    /\ timeout = "None"
    /\ pc' = "parent"
    /\ parentRuns' = [parentRuns EXCEPT ![idx] = @ + 1]
    /\ UNCHANGED notRunnerVars
    /\ UNCHANGED <<timeout, show_tb, grading_file, lingering, idx, child, test_ids,
                   results, details, report, childRuns, childOutcome,
                   parentOutcome, timedOut, raised>>

\* __run_timed_test, timeout given: p = Process(target=test.run); p.start();
\* the parent then sits in p.join(timeout).
SpawnChild ==
    /\ pc = "loop" /\ idx <= NTests
    /\ timeout # "None"
    /\ pc' = "join"
    /\ child' = "running"
    /\ childRuns' = [childRuns EXCEPT ![idx] = @ + 1]
    /\ UNCHANGED notRunnerVars
    /\ UNCHANGED <<timeout, show_tb, grading_file, lingering, idx, test_ids, results,
                   details, report, parentRuns, childOutcome, parentOutcome,
                   timedOut, raised>>

\* The child's test.run() ends before the timeout; its result object is the
\* child's own and goes away with the child.
ChildExit(o) ==
    /\ pc = "join" /\ child = "running"
    /\ child' = "exited"
    /\ childOutcome' = [childOutcome EXCEPT ![idx] = o]
    /\ UNCHANGED notRunnerVars
    /\ UNCHANGED <<timeout, show_tb, grading_file, lingering, pc, idx, test_ids, results,
                   details, report, childRuns, parentRuns, parentOutcome,
                   timedOut, raised>>

\* p.join(timeout) returns with the child alive: p.terminate() sends it
\* SIGTERM and does not wait for it; addError with the timeout error, return.
JoinAlive ==
    /\ pc = "join" /\ child = "running"
    /\ LET r == addError(Watcher, idx, TimeoutErr)
       IN /\ test_ids' = r.w.test_ids
          /\ results' = r.w.results
          /\ details' = r.w.details
          /\ raised' = r.raised
          /\ pc' = IF r.raised = "None" THEN "loop" ELSE "aborted"
          /\ idx' = IF r.raised = "None" THEN idx + 1 ELSE idx
    /\ child' = "terminated"
    /\ lingering' = lingering \cup {idx}
    /\ timedOut' = timedOut \cup {idx}
    /\ UNCHANGED notRunnerVars
    /\ UNCHANGED <<timeout, show_tb, grading_file, report, childRuns,
                   parentRuns, childOutcome, parentOutcome>>

\* p.join(timeout) returns with the child gone: control falls through to
\* test.run(watcher) in the parent.
JoinDead ==
    /\ pc = "join" /\ child = "exited"
    /\ pc' = "parent"
    /\ parentRuns' = [parentRuns EXCEPT ![idx] = @ + 1]
    /\ UNCHANGED notRunnerVars
    /\ UNCHANGED <<timeout, show_tb, grading_file, lingering, idx, child, test_ids,
                   results, details, report, childRuns, childOutcome,
                   parentOutcome, timedOut, raised>>

\* test.run(watcher) returns in the parent: the outcome is in the watcher.
ParentFinish(o) ==
    /\ pc = "parent"
    /\ LET r == Record(Watcher, idx, o)
       IN /\ test_ids' = r.w.test_ids
          /\ results' = r.w.results
          /\ details' = r.w.details
          /\ raised' = r.raised
          /\ pc' = IF r.raised = "None" THEN "loop" ELSE "aborted"
          /\ idx' = IF r.raised = "None" THEN idx + 1 ELSE idx
    /\ parentOutcome' = [parentOutcome EXCEPT ![idx] = o]
    /\ child' = "none"
    /\ UNCHANGED notRunnerVars
    /\ UNCHANGED <<timeout, show_tb, grading_file, lingering, report, childRuns,
                   parentRuns, childOutcome, timedOut>>

\* The candidate code never returns in the parent: nothing bounds this wait.
ParentHang ==
    /\ pc = "parent"
    /\ pc' = "hung"
    /\ UNCHANGED notRunnerVars
    /\ UNCHANGED <<timeout, show_tb, grading_file, lingering, idx, child, test_ids,
                   results, details, report, childRuns, parentRuns,
                   childOutcome, parentOutcome, timedOut, raised>>

\* A child that was sent SIGTERM ends; nothing in the parent waits for this.
ChildDies(t) ==
    /\ t \in lingering
    /\ lingering' = lingering \ {t}
    /\ UNCHANGED notRunnerVars
    /\ UNCHANGED <<timeout, show_tb, grading_file, pc, idx, child, test_ids,
                   results, details, report, childRuns, parentRuns,
                   childOutcome, parentOutcome, timedOut, raised>>

\* After the loop: print_columns(grading_file) or print_log().
Report ==
    /\ pc = "loop" /\ idx > NTests
    /\ pc' = "done"
    /\ report' = IF grading_file # "None" THEN print_columns(Watcher)
                 ELSE print_log(Watcher)
    /\ UNCHANGED notRunnerVars
    /\ UNCHANGED <<timeout, show_tb, grading_file, lingering, idx, child, test_ids,
                   results, details, childRuns, parentRuns, childOutcome,
                   parentOutcome, timedOut, raised>>

RunnerNext ==
    \/ ParentStart
    \/ SpawnChild
    \/ \E o \in Outcomes : ChildExit(o)
    \/ JoinAlive
    \/ JoinDead
    \/ \E o \in Outcomes : ParentFinish(o)
    \/ ParentHang
    \/ \E t \in Tests : ChildDies(t)
    \/ Report

\* ------------------------------------------------------- Queue and Stack

Elems == {1, 2}

\* The sequences over Elems of at most n entries.
SeqsUpTo(n) == UNION {[1..k -> Elems] : k \in 0..n}

\* The two operands.
Operands == {1, 2}

\* Queue: __buf with the front at index 1.  Each operation returns the heap it
\* leaves and either the value returned or the error raised.
Queue_size(h, q) == Len(h[q])

\* A dequeue that takes the newest element.
Queue_dequeue_Last(h, q) ==
    IF Len(h[q]) = 0
    THEN [heap |-> h, raised |-> "QueueUnderflowError", val |-> 0]
    ELSE [heap |-> [h EXCEPT ![q] = SubSeq(@, 1, Len(@) - 1)],
          raised |-> "None", val |-> h[q][Len(h[q])]]

Queue_dequeue(h, q) ==
    IF Len(h[q]) = 0
    THEN [heap |-> h, raised |-> "QueueUnderflowError", val |-> 0]
    ELSE [heap |-> [h EXCEPT ![q] = Tail(@)], raised |-> "None",
          val |-> Head(h[q])]

Queue_enqueue(h, q, value) == [h EXCEPT ![q] = Append(@, value)]

\* Stack: __buf with the top at the last index.  A Stack is used here as a
\* value, the sequence of its __buf.
Stack_is_empty(s) == Len(s) = 0

Stack_size(s) == Len(s)

\* A top that is the oldest element.
Stack_top_Bottom(s) == s[1]

Stack_top(s) == s[Len(s)]

Stack_pop(s) == SubSeq(s, 1, Len(s) - 1)

Stack_push(s, value) == Append(s, value)

\* copy_stack, first loop: s is emptied into buf, each element pushed twice.
RECURSIVE copy_stack_drain(_, _)
copy_stack_drain(s, buf) ==
    IF Stack_is_empty(s) THEN [s |-> s, buf |-> buf]
    ELSE LET nxt == Stack_top(s)
         IN copy_stack_drain(Stack_pop(s),
                             Stack_push(Stack_push(buf, nxt), nxt))

\* copy_stack, second loop: buf is emptied alternately into s and cpy.
RECURSIVE copy_stack_refill(_, _, _)
copy_stack_refill(buf, s, cpy) ==
    IF Stack_is_empty(buf) THEN [s |-> s, cpy |-> cpy]
    ELSE LET b1 == Stack_pop(buf)
         IN copy_stack_refill(Stack_pop(b1),
                              Stack_push(s, Stack_top(buf)),
                              Stack_push(cpy, Stack_top(b1)))

\* A copy that takes the elements out of s.
copy_stack_Moved(s) == [s |-> <<>>, cpy |-> s]

\* copy_stack(s): the stack s is left as, and the copy returned.
copy_stack(s) ==
    LET d == copy_stack_drain(s, <<>>)
    IN copy_stack_refill(d.buf, d.s, <<>>)

\* __queue_equals: the loop body run for the k iterations that remain of
\* range(expected.size()), then the comparison of the sizes.
RECURSIVE queue_equals_loop(_, _, _, _)
queue_equals_loop(h, expected, actual, k) ==
    IF k = 0
    THEN [heap |-> h,
          ret |-> IF Queue_size(h, expected) = Queue_size(h, actual)
                  THEN "True" ELSE "False"]
    ELSE LET d1 == Queue_dequeue(h, expected)
             d2 == Queue_dequeue(d1.heap, actual)
         IN IF d1.raised # "None" THEN [heap |-> d1.heap, ret |-> d1.raised]
            ELSE IF d2.raised # "None" THEN [heap |-> d2.heap, ret |-> d2.raised]
            ELSE IF d1.val # d2.val THEN [heap |-> d2.heap, ret |-> "False"]
            ELSE queue_equals_loop(
                     Queue_enqueue(Queue_enqueue(d2.heap, expected, d1.val),
                                   actual, d2.val),
                     expected, actual, k - 1)

queue_equals(h, expected, actual) ==
    queue_equals_loop(h, expected, actual, Queue_size(h, expected))

\* __stack_equals, the loop over the two copies.
RECURSIVE stack_equals_loop(_, _)
stack_equals_loop(expected_cpy, actual_cpy) ==
    IF Stack_is_empty(expected_cpy) THEN "True"
    ELSE IF Stack_is_empty(actual_cpy) THEN "StackUnderflowError"
    ELSE IF Stack_top(expected_cpy) # Stack_top(actual_cpy) THEN "False"
    ELSE stack_equals_loop(Stack_pop(expected_cpy), Stack_pop(actual_cpy))

stack_equals(h, expected, actual) ==
    IF Stack_size(h[expected]) # Stack_size(h[actual])
    THEN [heap |-> h, ret |-> "False"]
    ELSE LET c1 == copy_stack(h[expected])
             h1 == [h EXCEPT ![expected] = c1.s]
             c2 == copy_stack(h1[actual])
             h2 == [h1 EXCEPT ![actual] = c2.s]
         IN [heap |-> h2, ret |-> stack_equals_loop(c1.cpy, c2.cpy)]

\* cormen_equals, for two Queues or two Stacks.
container_equals(kind, h, first, second) ==
    IF kind = "Queue" THEN queue_equals(h, first, second)
    ELSE stack_equals(h, first, second)

EqualsInit ==
    /\ eqKind \in {"Queue", "Stack"}
    /\ eqFirst = 1
    /\ eqSecond \in Operands
    /\ heap \in [Operands -> SeqsUpTo(MaxLen)]
    /\ (eqSecond = eqFirst => heap[2] = <<>>)
    /\ eqPre = heap
    /\ eqRet = "none"
    /\ eqCalls = 0

\* No comparison is going on.
EqualsIdle ==
    /\ eqKind = "Queue"
    /\ eqFirst = 1
    /\ eqSecond = 2
    /\ heap = [o \in Operands |-> <<>>]
    /\ eqPre = heap
    /\ eqRet = "none"
    /\ eqCalls = 0

\* cormen_equals(first, second) is called and returns or raises.
CallEquals ==
    /\ eqCalls < MaxCalls
    /\ eqRet \in {"none", "True", "False"}
    /\ LET r == container_equals(eqKind, heap, eqFirst, eqSecond)
       IN /\ heap' = r.heap
          /\ eqRet' = r.ret
    /\ eqPre' = heap
    /\ eqCalls' = eqCalls + 1
    /\ UNCHANGED <<eqKind, eqFirst, eqSecond>>
    /\ UNCHANGED notEqualsVars

\* The batch is not running.
RunnerIdle ==
    /\ timeout = "None"
    /\ show_tb = FALSE
    /\ grading_file = "None"
    /\ pc = "idle"
    /\ idx = 1
    /\ child = "none"
    /\ test_ids = <<>>
    /\ results = <<>>
    /\ details = <<>>
    /\ report = [kind |-> "none"]
    /\ childRuns = [t \in Tests |-> 0]
    /\ parentRuns = [t \in Tests |-> 0]
    /\ childOutcome = [t \in Tests |-> "none"]
    /\ parentOutcome = [t \in Tests |-> "none"]
    /\ timedOut = {}
    /\ raised = "None"
    /\ lingering = {}

\* ------------------------------------------------------------- the values

\* The container classes the harness knows.
Shapes == {"Array", "Array2D", "Queue", "Stack", "Set",
           "SinglyLinkedListNode", "BinaryTreeNode", "Graph"}

\* A value: None, an int, a type (a class object), a list of values, or an
\* object of a container class with its identity and its contents.  The
\* contents are the elements in the order the class keeps them: by index for
\* an Array, the one row of an Array2D, front first for a Queue, bottom first
\* for a Stack, by insertion for a Set, from the head for a chain of
\* SinglyLinkedListNode, and an encoding of the nodes or vertices for a
\* BinaryTreeNode and a Graph.
NoneVal == [kind |-> "None", id |-> 0, elems |-> <<>>, name |-> "",
            items |-> <<>>]

IntVal(n) == [kind |-> "int", id |-> 0, elems |-> <<n>>, name |-> "",
              items |-> <<>>]

TypeVal(t) == [kind |-> "type", id |-> 0, elems |-> <<>>, name |-> t,
               items |-> <<>>]

ListVal(xs) == [kind |-> "list", id |-> 0, elems |-> <<>>, name |-> "",
                items |-> xs]

Obj(id, shape, elems) == [kind |-> shape, id |-> id, elems |-> elems,
                          name |-> "", items |-> <<>>]

\* copy.deepcopy of one argument: a new object with the same contents.
CopyOffset == 10

deepcopy(x) == IF x.kind \in Shapes THEN [x EXCEPT !.id = @ + CopyOffset]
               ELSE x

\* An isinstance that takes an exception of any class for the expected one.
IsInstance_Any(e, t) == TRUE

\* isinstance(e, expected) for the exception classes used here, none of which
\* derives from another.
IsInstance(e, t) == e = t

\* ---------------------------------------------------------- cormen_equals

\* first == second where no case of cormen_equals applies: the classes of the
\* library define no __eq__ (Vertex apart), so objects compare by identity.
native_eq(first, second) ==
    CASE first.kind = "None" -> second.kind = "None"
      [] first.kind = "int"  -> second.kind = "int" /\ first.elems = second.elems
      [] first.kind = "type" -> second.kind = "type" /\ first.name = second.name
      [] first.kind = "list" ->
            /\ second.kind = "list"
            /\ Len(first.items) = Len(second.items)
            /\ \A i \in 1..Len(first.items) :
                 IF first.items[i].kind \in Shapes
                 THEN second.items[i].kind \in Shapes
                      /\ first.items[i].id = second.items[i].id
                 ELSE first.items[i] = second.items[i]
      [] OTHER -> second.kind \in Shapes /\ first.id = second.id

\* __array_equals
array_equals(e, a) ==
    IF Len(e.elems) # Len(a.elems) THEN FALSE
    ELSE \A i \in 1..Len(e.elems) : ~(e.elems[i] # a.elems[i])

\* __array2d_equals, for arrays of one row
array2d_equals(e, a) ==
    IF Len(e.elems) # Len(a.elems) THEN FALSE
    ELSE \A j \in 1..Len(e.elems) : ~(e.elems[j] # a.elems[j])

\* A comparison of the Sets as the sequences of their elements.
set_equals_Ordered(e, a) == e.elems = a.elems

\* __set_equals
set_equals(e, a) ==
    {e.elems[i] : i \in 1..Len(e.elems)} = {a.elems[i] : i \in 1..Len(a.elems)}

\* The k-th node of the chain whose head is x.
NodeAt(x, k) == <<x.id, k>>

\* __singly_linked_list_equals: the walk from the k-th nodes on.
RECURSIVE singly_linked_list_loop(_, _, _, _)
singly_linked_list_loop(e, a, k, seen) ==
    IF k > Len(e.elems) \/ k > Len(a.elems)
    THEN k > Len(e.elems) /\ k > Len(a.elems)
    ELSE IF NodeAt(a, k) \in seen THEN FALSE
    ELSE IF NodeAt(e, k) # NodeAt(a, k) THEN FALSE
    ELSE singly_linked_list_loop(e, a, k + 1, seen \cup {NodeAt(a, k)})

singly_linked_list_equals(e, a) == singly_linked_list_loop(e, a, 1, {})

Bool(b) == IF b THEN "True" ELSE "False"

\* cormen_equals(first, second): "True", "False", or the error it raises.
cormen_equals(first, second) ==
    LET both(shape) == first.kind = shape /\ second.kind = shape
        h == (1 :> first.elems) @@ (2 :> second.elems)
        one == (1 :> first.elems)
    IN CASE both("Array")   -> Bool(array_equals(first, second))
         [] both("Array2D") -> Bool(array2d_equals(first, second))
         [] both("Queue")   -> IF first.id = second.id
                               THEN queue_equals(one, 1, 1).ret
                               ELSE queue_equals(h, 1, 2).ret
         [] both("Stack")   -> IF first.id = second.id
                               THEN stack_equals(one, 1, 1).ret
                               ELSE stack_equals(h, 1, 2).ret
         [] both("Set")     -> Bool(set_equals(first, second))
         [] both("SinglyLinkedListNode") ->
                               Bool(singly_linked_list_equals(first, second))
         [] OTHER           -> Bool(native_eq(first, second))

\* to_cormen_string: the delimiters of the class and the contents in order.
to_cormen_string(x) ==
    CASE x.kind = "list" -> <<"[]", [i \in 1..Len(x.items) |-> x.items[i].elems]>>
      [] x.kind = "Set" -> <<"{}", x.elems>>
      [] x.kind = "SinglyLinkedListNode" -> <<"->", x.elems>>
      [] x.kind = "Graph" -> <<"lines", x.elems>>
      [] x.kind \in Shapes -> <<"[]", x.elems>>
      [] OTHER -> <<"str", x.elems>>

\* A suffix chosen by the last digit alone.
append_int_LastDigit(num) ==
    CASE num % 10 = 1 -> "st"
      [] num % 10 = 2 -> "nd"
      [] num % 10 = 3 -> "rd"
      [] OTHER -> "th"

\* __append_int: the suffix of the ordinal of num; str(num)[-2] is the tens
\* digit of num.
append_int(num) ==
    IF num > 9 /\ (num \div 10) % 10 = 1 THEN "th"
    ELSE CASE num % 10 = 1 -> "st"
           [] num % 10 = 2 -> "nd"
           [] num % 10 = 3 -> "rd"
           [] OTHER -> "th"

\* ------------------------------------------------------------ generic_test

\* What a candidate can do to one argument: leave it, overwrite its last
\* element, or (a Queue, a Stack, a Set) remove every element.
NewElem == 9

Effects(shape) ==
    {"keep", "set"} \cup
    (IF shape \in {"Queue", "Stack", "Set"} THEN {"clear"} ELSE {})

ApplyEffect(effect, elems) ==
    CASE effect = "keep"  -> elems
      [] effect = "set"   -> [elems EXCEPT ![Len(elems)] = NewElem]
      [] effect = "clear" -> <<>>

\* The arguments after the call: the same objects, with what the candidate did.
PostItems(items, m) ==
    [i \in 1..Len(items) |->
        [items[i] EXCEPT !.elems = ApplyEffect(m.effects[i], @)]]

\* The value the candidate returned.
ReturnValue(m, post) ==
    CASE m.ret = "None" -> NoneVal
      [] m.ret = "int"  -> IntVal(1)
      [] m.ret = "type" -> TypeVal("ValueError")
      [] m.ret = "arg"  -> post[1]

\* How generic_test ends.
Passed(w, matched) ==
    [status |-> "pass", kind |-> IF matched THEN "matched" ELSE "",
     ordinal |-> 0, suffix |-> "", exc |-> "", arguments |-> <<>>,
     warnings |-> w]

\* A generic_test that lets the exception it caught leave it.
Failed_Propagates(kind, w) ==
    [status |-> "error", kind |-> "", ordinal |-> 0, suffix |-> "",
     exc |-> "Exception", arguments |-> <<>>, warnings |-> w]

Failed(kind, w) ==
    [status |-> "fail", kind |-> kind, ordinal |-> 0, suffix |-> "",
     exc |-> "AssertionError", arguments |-> <<>>, warnings |-> w]

FailedMutation(i, arguments, w) ==
    [status |-> "fail", kind |-> "mutation", ordinal |-> i,
     suffix |-> append_int(i), exc |-> "AssertionError",
     arguments |-> arguments, warnings |-> w]

Errored(exc, w) ==
    [status |-> "error", kind |-> "", ordinal |-> 0, suffix |-> "",
     exc |-> exc, arguments |-> <<>>, warnings |-> w]

\* Line 236: a bool stands for one flag per argument.
NoModFlags(no_mod, n) ==
    IF no_mod.is_bool THEN [i \in 1..n |-> no_mod.flag] ELSE no_mod.flags

\* Lines 239-242: the loop over the flags from the i-th on.
RECURSIVE no_mod_loop(_, _, _, _, _, _)
no_mod_loop(flags, params_copy, post, arguments, w, i) ==
    IF i > Len(flags) THEN Passed(w, FALSE)
    ELSE IF ~flags[i] THEN no_mod_loop(flags, params_copy, post, arguments, w, i + 1)
    ELSE IF i > Len(params_copy) THEN Errored("IndexError", w)
    ELSE LET eq == cormen_equals(params_copy[i], post[i])
         IN CASE eq = "True"  -> no_mod_loop(flags, params_copy, post,
                                             arguments, w, i + 1)
              [] eq = "False" -> FailedMutation(i, arguments, w)
              [] OTHER        -> Errored(eq, w)

\* A generic_test that compares the value returned even when in_place is set.
CompareTarget_Returned(inplace, result, p, post) == result

\* Lines 217-221: with in_place the arguments stand for the result.
CompareTarget(inplace, result, p, post) ==
    IF inplace THEN (IF p.is_list THEN ListVal(post) ELSE post[1])
    ELSE result

\* Lines 218-220: the warning for a value returned by an in-place function.
Warnings(inplace, result) ==
    IF inplace /\ result.kind # "None" THEN 1 ELSE 0

\* Lines 223-229: the comparator in use, on expected and the result.
Compare(comparator, exp, result) ==
    CASE comparator = "None" -> cormen_equals(exp, result)
      [] comparator = "always_true" -> "True"

\* A generic_test that goes on to the enforce_no_mod loop after it caught the
\* expected exception.
generic_test_ChecksAfterRaise(p, exp, m, comparator, inplace, no_mod) ==
    LET params_copy == [i \in 1..Len(p.items) |-> deepcopy(p.items[i])]
        post == PostItems(p.items, m)
        returned == ReturnValue(m, post)
        w == Warnings(inplace, returned)
        result == CompareTarget(inplace, returned, p, post)
        eq == Compare(comparator, exp, result)
        flags == NoModFlags(no_mod, Len(params_copy))
        modified_params_string ==
            to_cormen_string(IF p.is_list THEN ListVal(post) ELSE post[1])
    IN IF m.raises # "None"
       THEN IF exp.kind = "type" /\ IsInstance(m.raises, exp.name)
            THEN no_mod_loop(flags, params_copy, post, modified_params_string, 0, 1)
            ELSE Failed("unexpected", 0)
       ELSE IF eq \notin {"True", "False"}
       THEN IF exp.kind = "type" /\ IsInstance(eq, exp.name)
            THEN Passed(w, TRUE)
            ELSE Failed("unexpected", w)
       ELSE IF eq = "False" THEN Failed("mismatch", w)
       ELSE no_mod_loop(flags, params_copy, post, modified_params_string, w, 1)

\* generic_test(params, expected, method, custom_comparator, in_place,
\* enforce_no_mod), m being what `method` does when it is invoked.
generic_test(p, exp, m, comparator, inplace, no_mod) ==
    LET params_copy == [i \in 1..Len(p.items) |-> deepcopy(p.items[i])]
        post == PostItems(p.items, m)
        returned == ReturnValue(m, post)
        w == Warnings(inplace, returned)
        result == CompareTarget(inplace, returned, p, post)
        eq == Compare(comparator, exp, result)
        flags == NoModFlags(no_mod, Len(params_copy))
        modified_params_string ==
            to_cormen_string(IF p.is_list THEN ListVal(post) ELSE post[1])
    IN IF m.raises # "None"
       THEN IF exp.kind = "type" /\ IsInstance(m.raises, exp.name)
            THEN Passed(0, TRUE)
            ELSE Failed("unexpected", 0)
       ELSE IF eq \notin {"True", "False"}
       THEN IF exp.kind = "type" /\ IsInstance(eq, exp.name)
            THEN Passed(w, TRUE)
            ELSE Failed("unexpected", w)
       ELSE IF eq = "False" THEN Failed("mismatch", w)
       ELSE no_mod_loop(flags, params_copy, post, modified_params_string, w, 1)

\* The contents every argument starts with.
InitElems == <<1, 2>>

ParamsOf(shape, n, is_list) ==
    [is_list |-> is_list,
     items |-> [i \in 1..n |-> Obj(i, shape, InitElems)]]

\* The object `expected` is, when it is an object.
ExpectedId == 9

ExpectedValues(shape) ==
    {TypeVal("ValueError"), NoneVal, IntVal(1),
     Obj(ExpectedId, shape, InitElems),
     Obj(ExpectedId, shape, ApplyEffect("set", InitElems))}

NoModValues ==
    {[is_bool |-> TRUE, flag |-> b, flags |-> <<>>] : b \in BOOLEAN} \cup
    {[is_bool |-> FALSE, flag |-> FALSE, flags |-> f] :
        f \in UNION {[1..k -> BOOLEAN] : k \in 1..MaxArgs}}

NoMethod == [effects |-> <<>>, raises |-> "None", ret |-> "None"]

GenericInit ==
    /\ \E shape \in Shapes, n \in 1..MaxArgs, is_list \in BOOLEAN :
         /\ (~is_list => n = 1)
         /\ gtParams = ParamsOf(shape, n, is_list)
         /\ gtExpected \in ExpectedValues(shape)
    /\ gtComparator \in {"None", "always_true"}
    /\ gtInPlace \in BOOLEAN
    /\ gtNoMod \in NoModValues
    /\ gtMethod = NoMethod
    /\ gtOutcome = [status |-> "none"]

\* generic_test is not being called.
GenericIdle ==
    /\ gtParams = [is_list |-> TRUE, items |-> <<>>]
    /\ gtExpected = NoneVal
    /\ gtComparator = "None"
    /\ gtInPlace = FALSE
    /\ gtNoMod = [is_bool |-> TRUE, flag |-> FALSE, flags |-> <<>>]
    /\ gtMethod = NoMethod
    /\ gtOutcome = [status |-> "none"]

EffectChoices ==
    {e \in [1..Len(gtParams.items) -> {"keep", "set", "clear"}] :
        \A i \in 1..Len(gtParams.items) : e[i] \in Effects(gtParams.items[i].kind)}

\* generic_test runs with a candidate that returns.
CallReturns(effects, ret) ==
    /\ gtOutcome.status = "none"
    /\ gtMethod' = [effects |-> effects, raises |-> "None", ret |-> ret]
    /\ gtOutcome' = generic_test(gtParams, gtExpected, gtMethod', gtComparator,
                               gtInPlace, gtNoMod)
    /\ UNCHANGED <<gtParams, gtExpected, gtComparator, gtInPlace,
                   gtNoMod>>
    /\ UNCHANGED notGenericVars

\* generic_test runs with a candidate that raises.
CallRaises(effects, exc) ==
    /\ gtOutcome.status = "none"
    /\ gtMethod' = [effects |-> effects, raises |-> exc, ret |-> "None"]
    /\ gtOutcome' = generic_test(gtParams, gtExpected, gtMethod', gtComparator,
                               gtInPlace, gtNoMod)
    /\ UNCHANGED <<gtParams, gtExpected, gtComparator, gtInPlace,
                   gtNoMod>>
    /\ UNCHANGED notGenericVars

GenericNext ==
    \/ \E effects \in EffectChoices, ret \in {"None", "int", "type", "arg"} :
          CallReturns(effects, ret)
    \/ \E effects \in EffectChoices, exc \in {"ValueError", "TypeError"} :
          CallRaises(effects, exc)

\* ----------------------------------------------------------- behavior_test

\* What a step expects, and what a method returns: None, the int 1, or (as
\* expected only) an exception class.
ExceptionNames == {"ValueError", "TypeError"}

ValueOf(code) ==
    CASE code = "None" -> NoneVal
      [] code = "1" -> IntVal(1)
      [] OTHER -> TypeVal(code)

\* A method and the PARAMETERS of its step: the number of parameters the
\* method requires, and PARAMETERS omitted, one value, or a tuple (x, y).
CallShapes ==
    {[arity |-> 0, params |-> "none"], [arity |-> 1, params |-> "single"],
     [arity |-> 1, params |-> "tuple"], [arity |-> 2, params |-> "tuple"]}

\* What the body of a method does when it is entered.
Acts == {"None", "1", "ValueError"}

\* A step (RESULT, METHOD, PARAMETERS), after line 117 has put None for an
\* omitted RESULT.
Events ==
    {[expected |-> x, arity |-> c.arity, params |-> c.params, act |-> a] :
        x \in {"None", "1"} \cup ExceptionNames, c \in CallShapes, a \in Acts}

\* Lines 120-125: the number of arguments METHOD is called with.  PARAMETERS
\* is wrapped in a tuple of one entry and that tuple is unpacked.
ArgsPassed(ev) == IF ev.params = "none" THEN 0 ELSE 1

\* The call of a method: with the wrong number of arguments Python raises
\* TypeError before the body is entered.
CallOf(ev) ==
    IF ArgsPassed(ev) # ev.arity
    THEN [entered |-> FALSE, raised |-> "TypeError", ret |-> "None"]
    ELSE IF ev.act \in ExceptionNames
    THEN [entered |-> TRUE, raised |-> ev.act, ret |-> "None"]
    ELSE [entered |-> TRUE, raised |-> "None", ret |-> ev.act]

\* A behavior_test that takes every result for the expected one.
StepVerdict_Always(result, expected) == TRUE

\* Line 128: the result of the step against what it expects.
StepVerdict(result, expected) ==
    cormen_equals(ValueOf(result), ValueOf(expected)) = "True"

\* One line of msg.
MsgCall(step, params, result, mark) ==
    [line |-> "call", step |-> step, params |-> params, result |-> result,
     mark |-> mark, text |-> ""]

MsgText(line, text) ==
    [line |-> line, step |-> 0, params |-> 0, result |-> "", mark |-> "",
     text |-> text]

BehaviorEnded(status, kind, exc) ==
    [status |-> status, kind |-> kind, exc |-> exc]

\* behavior_test is called with a list of steps.
BehaviorInit ==
    /\ btBehavior \in UNION {[1..n -> Events] : n \in 0..MaxSteps}
    /\ btPc = "loop"
    /\ btIdx = 1
    /\ btExpected = "None"
    /\ btParams = 0
    /\ btResult = "None"
    /\ btMsg = <<MsgText("init", "")>>
    /\ btInvoked = <<>>
    /\ btOutcome = BehaviorEnded("none", "", "None")

\* behavior_test is not called.
BehaviorIdle ==
    /\ btBehavior = <<>>
    /\ btPc = "idle"
    /\ btIdx = 1
    /\ btExpected = "None"
    /\ btParams = 0
    /\ btResult = "None"
    /\ btMsg = <<>>
    /\ btInvoked = <<>>
    /\ btOutcome = BehaviorEnded("none", "", "None")

\* Line 116 with the list exhausted, then line 140.
BehaviorLoopEnds ==
    /\ btPc = "loop"
    /\ btIdx > Len(btBehavior)
    /\ btPc' = "done"
    /\ btOutcome' = BehaviorEnded("pass", "matched", "None")
    /\ UNCHANGED <<btBehavior, btIdx, btExpected, btParams, btResult, btMsg,
                   btInvoked>>
    /\ UNCHANGED notBehaviorVars

\* Lines 117-133: one turn of the loop in which the method returns.
BehaviorStepReturns ==
    /\ btPc = "loop"
    /\ btIdx <= Len(btBehavior)
    /\ LET ev == btBehavior[btIdx]
           call == CallOf(ev)
           shown == IF ev.params = "none" THEN 0 ELSE btIdx
       IN /\ call.raised = "None"
          /\ btExpected' = ev.expected
          /\ btResult' = call.ret
          /\ btParams' = shown
          /\ btInvoked' = Append(btInvoked, btIdx)
          /\ IF StepVerdict(call.ret, ev.expected)
             THEN /\ btMsg' = Append(btMsg, MsgCall(btIdx, shown, call.ret, "ok"))
                  /\ btIdx' = btIdx + 1
                  /\ UNCHANGED <<btPc, btOutcome>>
             ELSE /\ btMsg' = btMsg \o <<MsgCall(btIdx, shown, call.ret, "bad"),
                                         MsgText("expected", ev.expected)>>
                  /\ btPc' = "done"
                  /\ btOutcome' = BehaviorEnded("fail", "mismatch", "None")
                  /\ UNCHANGED btIdx
    /\ UNCHANGED btBehavior
    /\ UNCHANGED notBehaviorVars

\* Lines 117-122 or 125, then 134-139: one turn of the loop in which the call
\* raises.  `result` is what the step before left; `params` too when the
\* method is called without PARAMETERS.
BehaviorStepRaises ==
    /\ btPc = "loop"
    /\ btIdx <= Len(btBehavior)
    /\ LET ev == btBehavior[btIdx]
           call == CallOf(ev)
           held == IF ev.params = "none" THEN btParams ELSE btIdx
           line == MsgCall(btIdx, held, btResult, "bad")
       IN /\ call.raised # "None"
          /\ btExpected' = ev.expected
          /\ btParams' = held
          /\ btInvoked' = IF call.entered THEN Append(btInvoked, btIdx)
                          ELSE btInvoked
          /\ IF ev.expected \in ExceptionNames
                /\ IsInstance(call.raised, ev.expected)
             THEN /\ btMsg' = Append(btMsg, line)
                  /\ btOutcome' = BehaviorEnded("pass", "raised", call.raised)
             ELSE /\ btMsg' = btMsg \o <<line, MsgText("error", call.raised)>>
                  /\ btOutcome' = BehaviorEnded("fail", "unexpected", call.raised)
    /\ btPc' = "done"
    /\ UNCHANGED <<btBehavior, btIdx, btResult>>
    /\ UNCHANGED notBehaviorVars

BehaviorNext ==
    \/ BehaviorLoopEnds
    \/ BehaviorStepReturns
    \/ BehaviorStepRaises

\* ------------------------------------------- Arrays and Sets as operands

\* The Array objects held as elements of other Arrays.  An element of an
\* Array is an int, or one of these objects: Python's == and != on two of
\* them compare the objects, not what they hold.
Refs == {101, 102}

\* The sequences over S of at most n entries.
SeqsOver(S, n) == UNION {[1..k -> S] : k \in 0..n}

\* The sequences a Set can hold: no element twice.
NoRepeat(xs) == \A i, j \in 1..Len(xs) : xs[i] = xs[j] => i = j

ContentsOf(kind) ==
    IF kind = "Set" THEN {xs \in SeqsOver(Elems, MaxLen) : NoRepeat(xs)}
    ELSE SeqsOver(Elems \cup Refs, MaxLen)

\* to_cormen_string of an element of an Array.
element_to_string(store, v) ==
    IF v \in Refs THEN <<"[]", store[v]>> ELSE <<"str", <<v>>>>

\* to_cormen_string of an operand: __array_to_string and __array2d_to_string
\* render each element with to_cormen_string.
value_to_string(store, x) ==
    IF x.kind \in {"Array", "Array2D"}
    THEN <<"[]", [i \in 1..Len(x.elems) |-> element_to_string(store, x.elems[i])]>>
    ELSE <<to_cormen_string(x)[1],
           [i \in 1..Len(x.elems) |-> <<"str", <<x.elems[i]>>>>]>>

ValuesInit ==
    /\ \E kind \in {"Array", "Array2D", "Set"} :
         \E e1 \in ContentsOf(kind), e2 \in ContentsOf(kind) :
            /\ valFirst = Obj(1, kind, e1)
            /\ valSecond = Obj(2, kind, e2)
    /\ valStore \in [Refs -> SeqsUpTo(1)]
    /\ \A r \in Refs :
         (\A i \in 1..Len(valFirst.elems) : valFirst.elems[i] # r)
         /\ (\A i \in 1..Len(valSecond.elems) : valSecond.elems[i] # r)
         => valStore[r] = <<>>
    /\ valRet = "none"
    /\ valStr = <<>>

\* No value is inspected.
ValuesIdle ==
    /\ valStore = [r \in Refs |-> <<>>]
    /\ valFirst = NoneVal
    /\ valSecond = NoneVal
    /\ valRet = "idle"
    /\ valStr = <<>>

\* cormen_equals(first, second) and to_cormen_string of both are called.
CallValueEquals ==
    /\ valRet = "none"
    /\ valRet' = cormen_equals(valFirst, valSecond)
    /\ valStr' = <<value_to_string(valStore, valFirst),
                   value_to_string(valStore, valSecond)>>
    /\ UNCHANGED <<valStore, valFirst, valSecond>>
    /\ UNCHANGED notValueVars

\* ------------------------------------------ chains of SinglyLinkedListNode

\* None, where a node is expected.
Nil == 0

Nodes == 1..MaxNodes

\* The nodes met from n on by following `next`, n included.
RECURSIVE ReachFrom(_, _)
ReachFrom(n, met) ==
    IF n = Nil \/ n \in met THEN met
    ELSE ReachFrom(chNext[n], met \cup {n})

Reach(n) == ReachFrom(n, {})

\* A walk that never recognises a node it has met.
Revisited_Never(node, seen) == FALSE

\* A node revisited within the walk that collected `seen`.
Revisited(node, seen) == node \in seen

\* __singly_linked_list_equals is called.
ChainEqualsCall ==
    /\ chPc = "start"
    /\ chOp = "equals"
    /\ chPc' = "loop"
    /\ chExpected' = chFirst
    /\ chActual' = chSecond
    /\ chSeen' = {}
    /\ UNCHANGED <<chNext, chData, chOp, chFirst, chSecond, chOut, chRet>>
    /\ UNCHANGED notChainVars

\* One test of the while condition and, if it holds, one turn of the body.
ChainEqualsStep ==
    /\ chPc = "loop"
    /\ chOp = "equals"
    /\ IF chExpected = Nil \/ chActual = Nil
       THEN /\ chRet' = Bool(chExpected = Nil /\ chActual = Nil)
            /\ chPc' = "done"
            /\ UNCHANGED <<chExpected, chActual, chSeen>>
       ELSE IF Revisited(chActual, chSeen) \/ chExpected # chActual
       THEN /\ chRet' = "False"
            /\ chPc' = "done"
            /\ chSeen' = IF Revisited(chActual, chSeen) THEN chSeen
                         ELSE chSeen \cup {chActual}
            /\ UNCHANGED <<chExpected, chActual>>
       ELSE /\ chSeen' = chSeen \cup {chActual}
            /\ chExpected' = chNext[chExpected]
            /\ chActual' = chNext[chActual]
            /\ UNCHANGED <<chPc, chRet>>
    /\ UNCHANGED <<chNext, chData, chOp, chFirst, chSecond, chOut>>
    /\ UNCHANGED notChainVars

\* __singly_linked_list_to_string is called.
ChainStringCall ==
    /\ chPc = "start"
    /\ chOp = "to_string"
    /\ chPc' = "loop"
    /\ chExpected' = chFirst
    /\ chSeen' = {}
    /\ chOut' = <<>>
    /\ UNCHANGED <<chNext, chData, chOp, chFirst, chSecond, chActual, chRet>>
    /\ UNCHANGED notChainVars

\* One test of the while condition and, if it holds, one turn of the body.
ChainStringStep ==
    /\ chPc = "loop"
    /\ chOp = "to_string"
    /\ IF chExpected = Nil
       THEN /\ chPc' = "done"
            /\ UNCHANGED <<chExpected, chSeen, chOut>>
       ELSE IF Revisited(chExpected, chSeen)
       THEN /\ chOut' = Append(chOut, "cycle")
            /\ chPc' = "done"
            /\ UNCHANGED <<chExpected, chSeen>>
       ELSE /\ chSeen' = chSeen \cup {chExpected}
            /\ chOut' = Append(chOut, ToString(chData[chExpected]))
            /\ chExpected' = chNext[chExpected]
            /\ UNCHANGED chPc
    /\ UNCHANGED <<chNext, chData, chOp, chFirst, chSecond, chActual, chRet>>
    /\ UNCHANGED notChainVars

\* The nodes that exist are those of the chains passed; the first chain
\* passed, if any, starts at node 1.
ChainInit ==
    /\ chNext \in [Nodes -> Nodes \cup {Nil}]
    /\ chData \in [Nodes -> Elems]
    /\ chOp \in {"equals", "to_string"}
    /\ chFirst \in {Nil, 1}
    /\ chSecond \in Nodes \cup {Nil}
    /\ (chOp = "to_string" => chSecond = Nil)
    /\ \A n \in Nodes \ (Reach(chFirst) \cup Reach(chSecond)) :
          chNext[n] = Nil /\ chData[n] = 1
    /\ chPc = "start"
    /\ chExpected = Nil
    /\ chActual = Nil
    /\ chSeen = {}
    /\ chOut = <<>>
    /\ chRet = "none"

\* No chain is inspected.
ChainIdle ==
    /\ chNext = [n \in Nodes |-> Nil]
    /\ chData = [n \in Nodes |-> 1]
    /\ chOp = "equals"
    /\ chFirst = Nil
    /\ chSecond = Nil
    /\ chPc = "idle"
    /\ chExpected = Nil
    /\ chActual = Nil
    /\ chSeen = {}
    /\ chOut = <<>>
    /\ chRet = "none"

ChainNext ==
    \/ ChainEqualsCall
    \/ ChainEqualsStep
    \/ ChainStringCall
    \/ ChainStringStep

\* -------------------------------------------------------------------- Graph

\* The names of the Vertex objects handed to a Graph.
GraphNames == {"a", "b"}

\* The weights handed to add_edge: the default None, or a number.
Weights == {"None", "1"}

\* The two Graph classes of the repository.
Implementations == {"cormen_lib", "dalpy"}

\* Set.add of cormen_lib.sets: the element goes last unless it is in the Set.
Set_add(s, x) ==
    IF \E i \in 1..Len(s) : s[i] = x THEN s ELSE Append(s, x)

\* Set(*initial_elements) of dalpy.sets: the elements become the keys of a
\* dict, one after the other.
RECURSIVE Set_init(_)
Set_init(ls) ==
    IF ls = <<>> THEN <<>>
    ELSE LET rest == Set_init(SubSeq(ls, 1, Len(ls) - 1))
             x == ls[Len(ls)]
         IN IF \E i \in 1..Len(rest) : rest[i] = x THEN rest
            ELSE rest \o <<x>>

\* The loop `for u in ...: s.add(u)` of the cormen_lib Graph.
RECURSIVE add_all(_, _)
add_all(s, ls) ==
    IF ls = <<>> THEN s ELSE add_all(Set_add(s, ls[1]), Tail(ls))

\* Graph.__check_edge_vertices and the check of adj.
InGraph(verts, v) == \E i \in 1..Len(verts) : verts[i] = v

\* Graph.add_vertex: the new value of __adj_lists[vertex], and the keys.
Graph_add_vertex(verts, v) ==
    IF InGraph(verts, v) THEN verts ELSE Append(verts, v)

\* A Graph whose add_edge puts the destination first in either class.
Graph_add_edge_Prepends(impl, stored, dest) == <<dest>> \o stored

\* Graph.add_edge: the new value of __adj_lists[source]. cormen_lib appends
\* to a list; dalpy makes a node whose next is the old head of the chain.
Graph_add_edge(impl, stored, dest) ==
    IF impl = "cormen_lib" THEN Append(stored, dest)
    ELSE <<dest>> \o stored

\* Graph.adj: the Set made of the stored adjacency.
Graph_adj(impl, stored) ==
    IF impl = "cormen_lib" THEN add_all(<<>>, stored)
    ELSE Set_init(stored)

\* Graph.vertices: the Set made of the keys of __adj_lists.
Graph_vertices(impl, verts) ==
    IF impl = "cormen_lib" THEN add_all(<<>>, verts)
    ELSE Set_init(verts)

\* Graph.weight: the weight stored for the pair, or the error raised.
Graph_weight(verts, weights, source, dest) ==
    IF ~(InGraph(verts, source) /\ InGraph(verts, dest)) THEN "GraphVertexError"
    ELSE IF weights[<<source, dest>>] = "absent" THEN "GraphEdgeError"
    ELSE weights[<<source, dest>>]

\* str.join.
RECURSIVE join(_, _)
join(sep, xs) ==
    IF xs = <<>> THEN ""
    ELSE IF Len(xs) = 1 THEN xs[1]
    ELSE xs[1] \o sep \o join(sep, Tail(xs))

\* __graph_to_string: one edge of a line.
edge_str(weights, vertex, dest) ==
    IF weights[<<vertex, dest>>] # "None"
    THEN dest \o " <" \o weights[<<vertex, dest>>] \o ">"
    ELSE dest

\* __graph_to_string.
graph_to_string(impl, verts, adjlists, weights) ==
    LET vs == Graph_vertices(impl, verts)
        line(vertex) ==
            LET ds == Graph_adj(impl, adjlists[vertex])
            IN vertex \o ": " \o
               join(", ", [j \in 1..Len(ds) |-> edge_str(weights, vertex, ds[j])])
    IN join("\n", [i \in 1..Len(vs) |-> line(vs[i])])

\* str(obj) of an object without __str__: to_cormen_string's last case.
DefaultStr == "<object>"

GraphInit ==
    /\ grImpl \in Implementations
    /\ grVertices = <<>>
    /\ grAdj = [v \in GraphNames |-> <<>>]
    /\ grWeights = [p \in GraphNames \X GraphNames |-> "absent"]
    /\ grLog = [v \in GraphNames |-> <<>>]
    /\ grOps = 0
    /\ grOp = "none"
    /\ grArg = "none"
    /\ grRet = <<>>
    /\ grStr = ""
    /\ grRaised = "None"

GraphIdle ==
    /\ grImpl = "idle"
    /\ grVertices = <<>>
    /\ grAdj = <<>>
    /\ grWeights = <<>>
    /\ grLog = <<>>
    /\ grOps = 0
    /\ grOp = "idle"
    /\ grArg = "none"
    /\ grRet = <<>>
    /\ grStr = ""
    /\ grRaised = "None"

\* g.add_vertex(Vertex(v))
AddVertex(v) ==
    /\ grImpl \in Implementations /\ grOps < MaxGraphOps
    /\ grVertices' = Graph_add_vertex(grVertices, v)
    /\ grAdj' = [grAdj EXCEPT ![v] = <<>>]
    /\ grLog' = [grLog EXCEPT ![v] = <<>>]
    /\ grOps' = grOps + 1
    /\ grOp' = "add_vertex"
    /\ grRaised' = "None"
    /\ UNCHANGED <<grImpl, grWeights, grArg, grRet, grStr>>
    /\ UNCHANGED notGraphVars

\* g.add_edge(source, dest, weight) on two vertices of the Graph
AddEdge(source, dest, weight) ==
    /\ grImpl \in Implementations /\ grOps < MaxGraphOps
    /\ InGraph(grVertices, source) /\ InGraph(grVertices, dest)
    /\ grWeights' = [grWeights EXCEPT ![<<source, dest>>] = weight]
    /\ grAdj' = [grAdj EXCEPT ![source] = Graph_add_edge(grImpl, @, dest)]
    /\ grLog' = [grLog EXCEPT ![source] = Append(@, dest)]
    /\ grOps' = grOps + 1
    /\ grOp' = "add_edge"
    /\ grRaised' = "None"
    /\ UNCHANGED <<grImpl, grVertices, grArg, grRet, grStr>>
    /\ UNCHANGED notGraphVars

\* g.add_edge(source, dest, weight) when one of the two is not in the Graph
AddEdgeRaises(source, dest) ==
    /\ grImpl \in Implementations /\ grOps < MaxGraphOps
    /\ ~(InGraph(grVertices, source) /\ InGraph(grVertices, dest))
    /\ grOps' = grOps + 1
    /\ grOp' = "add_edge"
    /\ grRaised' = "GraphVertexError"
    /\ UNCHANGED <<grImpl, grVertices, grAdj, grWeights, grLog, grArg, grRet,
                   grStr>>
    /\ UNCHANGED notGraphVars

\* g.adj(Vertex(v))
CallAdj(v) ==
    /\ grImpl \in Implementations
    /\ grOp' = "adj"
    /\ grArg' = v
    /\ IF InGraph(grVertices, v)
       THEN grRet' = Graph_adj(grImpl, grAdj[v]) /\ grRaised' = "None"
       ELSE grRet' = <<>> /\ grRaised' = "GraphVertexError"
    /\ UNCHANGED <<grImpl, grVertices, grAdj, grWeights, grLog, grOps, grStr>>
    /\ UNCHANGED notGraphVars

\* g.weight(source, dest)
CallWeight(source, dest) ==
    /\ grImpl \in Implementations
    /\ grOp' = "weight"
    /\ grArg' = source \o "," \o dest
    /\ LET w == Graph_weight(grVertices, grWeights, source, dest)
       IN IF w \in {"GraphVertexError", "GraphEdgeError"}
          THEN grRet' = <<>> /\ grRaised' = w
          ELSE grRet' = <<w>> /\ grRaised' = "None"
    /\ UNCHANGED <<grImpl, grVertices, grAdj, grWeights, grLog, grOps, grStr>>
    /\ UNCHANGED notGraphVars

\* to_cormen_string(g): the Graph it knows is the class of cormen_lib.graphs.
CallGraphToString ==
    /\ grImpl \in Implementations
    /\ grOp' = "to_cormen_string"
    /\ grStr' = IF grImpl = "cormen_lib"
                THEN graph_to_string(grImpl, grVertices, grAdj, grWeights)
                ELSE DefaultStr
    /\ grRaised' = "None"
    /\ UNCHANGED <<grImpl, grVertices, grAdj, grWeights, grLog, grOps, grArg,
                   grRet>>
    /\ UNCHANGED notGraphVars

GraphNext ==
    \/ \E v \in GraphNames : AddVertex(v)
    \/ \E s \in GraphNames, d \in GraphNames, w \in Weights : AddEdge(s, d, w)
    \/ \E s \in GraphNames, d \in GraphNames : AddEdgeRaises(s, d)
    \/ \E v \in GraphNames : CallAdj(v)
    \/ \E s \in GraphNames, d \in GraphNames : CallWeight(s, d)
    \/ CallGraphToString

\* -------------------------------------------------------------- binary tree

\* None as a child and as an entry of q.
TreeNone == 0

\* The positions of a tree of MaxDepth levels.
RECURSIVE Pow2(_)
Pow2(n) == IF n = 0 THEN 1 ELSE 2 * Pow2(n - 1)

Positions == 1..(Pow2(MaxDepth) - 1)

\* The trees: a node other than the root hangs from a node.
Trees == {S \in SUBSET Positions : \A p \in S : p = 1 \/ p \div 2 \in S}

\* curr.left, curr.right and curr.data: the data of a node is the number
\* of its position.
left(nodes, p) == IF 2 * p \in nodes THEN 2 * p ELSE TreeNone
right(nodes, p) == IF 2 * p + 1 \in nodes THEN 2 * p + 1 ELSE TreeNone
data(p) == p

\* The entries of out_buf as str(out_buf) shows them: the str that
\* to_cormen_string made of the data, in quotes, or None.
DataEntry(d) == "'" \o ToString(d) \o "'"
NoneEntry == "None"

\* __strip_trailing_nones
RECURSIVE strip_trailing_nones(_)
strip_trailing_nones(ls) ==
    IF Len(ls) > 0 /\ ls[Len(ls)] = NoneEntry
    THEN strip_trailing_nones(SubSeq(ls, 1, Len(ls) - 1))
    ELSE ls

\* A loop in which the last entry visited decides whether the level is empty.
AllNoneAfter_LastDecides(all_none, curr) == curr = TreeNone

\* all_none_level after an entry of the level was visited.
AllNoneAfter(all_none, curr) == IF curr # TreeNone THEN FALSE ELSE all_none

\* str(out_buf)
list_str(ls) == "[" \o join(", ", ls) \o "]"

TreeInit ==
    /\ trNodes \in Trees
    /\ trPc = "start"
    /\ trQ = <<>>
    /\ trK = 0
    /\ trAllNone = FALSE
    /\ trOut = <<>>
    /\ trStr = ""

TreeIdle ==
    /\ trNodes = {}
    /\ trPc = "idle"
    /\ trQ = <<>>
    /\ trK = 0
    /\ trAllNone = FALSE
    /\ trOut = <<>>
    /\ trStr = ""

\* The call: root is None, or q starts with the root.
TreeCall ==
    /\ trPc = "start"
    /\ IF 1 \notin trNodes
       THEN trPc' = "done" /\ trStr' = "" /\ UNCHANGED trQ
       ELSE trPc' = "while" /\ trQ' = <<1>> /\ UNCHANGED trStr
    /\ UNCHANGED <<trNodes, trK, trAllNone, trOut>>
    /\ UNCHANGED notTreeVars

\* `while not all_none_level`: a level starts, or the list is returned.
TreeWhile ==
    /\ trPc = "while"
    /\ IF ~trAllNone
       THEN /\ trK' = Len(trQ)
            /\ trAllNone' = TRUE
            /\ trPc' = "for"
            /\ UNCHANGED <<trOut, trStr>>
       ELSE /\ trOut' = strip_trailing_nones(trOut)
            /\ trStr' = list_str(trOut')
            /\ trPc' = "done"
            /\ UNCHANGED <<trK, trAllNone>>
    /\ UNCHANGED <<trNodes, trQ>>
    /\ UNCHANGED notTreeVars

\* One iteration of `for _ in range(k)`.
TreeFor ==
    /\ trPc = "for" /\ trK > 0
    /\ LET curr == Head(trQ)
       IN /\ IF curr # TreeNone
             THEN /\ trQ' = Tail(trQ) \o <<left(trNodes, curr),
                                          right(trNodes, curr)>>
                  /\ trOut' = Append(trOut, DataEntry(data(curr)))
             ELSE /\ trQ' = Tail(trQ)
                  /\ trOut' = Append(trOut, NoneEntry)
          /\ trAllNone' = AllNoneAfter(trAllNone, curr)
    /\ trK' = trK - 1
    /\ UNCHANGED <<trNodes, trPc, trStr>>
    /\ UNCHANGED notTreeVars

\* The for loop ends.
TreeForEnds ==
    /\ trPc = "for" /\ trK = 0
    /\ trPc' = "while"
    /\ UNCHANGED <<trNodes, trQ, trK, trAllNone, trOut, trStr>>
    /\ UNCHANGED notTreeVars

TreeNext ==
    \/ TreeCall
    \/ TreeWhile
    \/ TreeFor
    \/ TreeForEnds

\* ------------------------------------------ Stack, Queue and PriorityQueue

ContainerKinds == {"Stack", "Queue", "PriorityQueue"}

\* The priorities handed to insert and decrease_key.
Priorities == {1, 2, 3}

\* The error list.pop() raises on an empty list.
UnderflowError_Unchecked(kind) == "IndexError"

\* StackUnderflowError, QueueUnderflowError, PriorityQueueUnderflowError.
UnderflowError(kind) == kind \o "UnderflowError"

\* list.insert(i, x) and list.pop(i), i counted from 0 as in the code.
list_insert(buf, i, x) ==
    SubSeq(buf, 1, i) \o <<x>> \o SubSeq(buf, i + 1, Len(buf))

list_pop(buf, i) == SubSeq(buf, 1, i) \o SubSeq(buf, i + 2, Len(buf))

RECURSIVE insert_index(_, _, _)
RECURSIVE insert_index_Strict(_, _, _)

\* A loop that stops at the first entry of the same priority.
insert_index_Strict(buf, priority, i) ==
    IF i < Len(buf) /\ buf[i + 1][1] < priority
    THEN insert_index_Strict(buf, priority, i + 1)
    ELSE i

\* PriorityQueue.insert: the while loop, from i on.
insert_index(buf, priority, i) ==
    IF i < Len(buf) /\ buf[i + 1][1] <= priority
    THEN insert_index(buf, priority, i + 1)
    ELSE i

\* An insert that puts every entry first.
PriorityQueue_insert_First(buf, element, priority) ==
    list_insert(buf, 0, <<priority, element>>)

\* PriorityQueue.insert
PriorityQueue_insert(buf, element, priority) ==
    list_insert(buf, insert_index(buf, priority, 0), <<priority, element>>)

\* PriorityQueue.decrease_key: the for loop that sets idx.
index_of(buf, element) ==
    IF \E i \in 1..Len(buf) : buf[i][2] = element
    THEN (CHOOSE i \in 1..Len(buf) :
            /\ buf[i][2] = element
            /\ \A j \in 1..(i - 1) : buf[j][2] # element) - 1
    ELSE -1

\* A decrease_key that moves the entry whatever the new priority is.
PriorityQueue_decrease_key_Unchecked(buf, element, new_priority) ==
    IF index_of(buf, element) = -1 THEN [buf |-> buf, raised |-> "ValueError"]
    ELSE [buf |-> PriorityQueue_insert(list_pop(buf, index_of(buf, element)),
                                       element, new_priority),
          raised |-> "None"]

\* PriorityQueue.decrease_key
PriorityQueue_decrease_key(buf, element, new_priority) ==
    LET found == index_of(buf, element)
    IN IF found = -1 THEN [buf |-> buf, raised |-> "ValueError"]
       ELSE LET priority == buf[found + 1][1]
            IN IF new_priority > priority
               THEN [buf |-> buf, raised |-> "ValueError"]
               ELSE IF new_priority < priority
               THEN [buf |-> PriorityQueue_insert(list_pop(buf, found), element,
                                                  new_priority),
                     raised |-> "None"]
               ELSE [buf |-> buf, raised |-> "None"]

\* "[" + ", ".join(out) + "]"
bracketed(out) == "[" \o join(", ", out) \o "]"

\* __queue_to_string: the k iterations of the loop that remain.
RECURSIVE queue_to_string_loop(_, _, _)
queue_to_string_loop(h, out, k) ==
    IF k = 0 THEN [heap |-> h, out |-> out]
    ELSE LET d == Queue_dequeue(h, 1)
         IN queue_to_string_loop(Queue_enqueue(d.heap, 1, d.val),
                                 Append(out, ToString(d.val)), k - 1)

\* __queue_to_string: the queue as it is left, and the string.
queue_to_string(buf) ==
    LET r == queue_to_string_loop(<<buf>>, <<>>, Queue_size(<<buf>>, 1))
    IN [buf |-> r.heap[1], str |-> bracketed(r.out)]

\* __stack_to_string, first loop: k elements go to temp_stack.
RECURSIVE stack_to_string_drain(_, _, _, _)
stack_to_string_drain(stack, temp, out, k) ==
    IF k = 0 THEN [stack |-> stack, temp |-> temp, out |-> out]
    ELSE LET nxt == Stack_top(stack)
         IN stack_to_string_drain(Stack_pop(stack), Stack_push(temp, nxt),
                                  <<ToString(nxt)>> \o out, k - 1)

RECURSIVE stack_to_string_refill(_, _)

\* A rendering that leaves the elements in temp_stack.
stack_to_string_refill_Skipped(stack, temp) == stack

\* __stack_to_string, second loop: temp_stack is emptied into the stack.
stack_to_string_refill(stack, temp) ==
    IF Stack_is_empty(temp) THEN stack
    ELSE stack_to_string_refill(Stack_push(stack, Stack_top(temp)),
                                Stack_pop(temp))

\* __stack_to_string: the stack as it is left, and the string.
stack_to_string(buf) ==
    LET d == stack_to_string_drain(buf, <<>>, <<>>, Stack_size(buf))
    IN [buf |-> stack_to_string_refill(d.stack, d.temp),
        str |-> bracketed(d.out)]

\* The call appended to the history.
Logged(op, val, pri, err) ==
    ctHist' = Append(ctHist, [op |-> op, val |-> val, pri |-> pri,
                              raised |-> err])

\* A new object to push or enqueue: the number of the push.
Fresh ==
    1 + Cardinality({i \in 1..Len(ctHist) : ctHist[i].op \in {"push", "enqueue"}})

ContainerInit ==
    /\ ctKind \in ContainerKinds
    /\ ctBuf = <<>>
    /\ ctHist = <<>>
    /\ ctStr = ""
    /\ ctCopy = <<>>

ContainerIdle ==
    /\ ctKind = "idle"
    /\ ctBuf = <<>>
    /\ ctHist = <<>>
    /\ ctStr = ""
    /\ ctCopy = <<>>

CanCall(kind) == ctKind = kind /\ Len(ctHist) < MaxContainerOps

\* s.push(value)
StackPush ==
    /\ CanCall("Stack")
    /\ ctBuf' = Stack_push(ctBuf, Fresh)
    /\ Logged("push", Fresh, 0, "None")
    /\ UNCHANGED <<ctCopy, ctKind, ctStr>>
    /\ UNCHANGED notContainerVars

\* s.pop()
StackPop ==
    /\ CanCall("Stack")
    /\ IF Len(ctBuf) = 0
       THEN Logged("pop", 0, 0, UnderflowError("Stack")) /\ UNCHANGED ctBuf
       ELSE Logged("pop", Stack_top(ctBuf), 0, "None")
            /\ ctBuf' = Stack_pop(ctBuf)
    /\ UNCHANGED <<ctCopy, ctKind, ctStr>>
    /\ UNCHANGED notContainerVars

\* s.top()
StackTop ==
    /\ CanCall("Stack")
    /\ IF Len(ctBuf) = 0
       THEN Logged("top", 0, 0, UnderflowError("Stack"))
       ELSE Logged("top", Stack_top(ctBuf), 0, "None")
    /\ UNCHANGED <<ctCopy, ctKind, ctBuf, ctStr>>
    /\ UNCHANGED notContainerVars

\* q.enqueue(value)
QueueEnqueue ==
    /\ CanCall("Queue")
    /\ ctBuf' = Queue_enqueue(<<ctBuf>>, 1, Fresh)[1]
    /\ Logged("enqueue", Fresh, 0, "None")
    /\ UNCHANGED <<ctCopy, ctKind, ctStr>>
    /\ UNCHANGED notContainerVars

\* q.dequeue()
QueueDequeue ==
    /\ CanCall("Queue")
    /\ LET d == Queue_dequeue(<<ctBuf>>, 1)
       IN /\ ctBuf' = d.heap[1]
          /\ Logged("dequeue", d.val, 0, d.raised)
    /\ UNCHANGED <<ctCopy, ctKind, ctStr>>
    /\ UNCHANGED notContainerVars

\* q.front()
QueueFront ==
    /\ CanCall("Queue")
    /\ IF Len(ctBuf) = 0
       THEN Logged("front", 0, 0, UnderflowError("Queue"))
       ELSE Logged("front", ctBuf[1], 0, "None")
    /\ UNCHANGED <<ctCopy, ctKind, ctBuf, ctStr>>
    /\ UNCHANGED notContainerVars

\* q.insert(element, priority)
PriorityQueueInsert(element, priority) ==
    /\ CanCall("PriorityQueue")
    /\ ctBuf' = PriorityQueue_insert(ctBuf, element, priority)
    /\ Logged("insert", element, priority, "None")
    /\ UNCHANGED <<ctCopy, ctKind, ctStr>>
    /\ UNCHANGED notContainerVars

\* q.extract_min()
PriorityQueueExtractMin ==
    /\ CanCall("PriorityQueue")
    /\ IF Len(ctBuf) = 0
       THEN Logged("extract_min", 0, 0, UnderflowError("PriorityQueue"))
            /\ UNCHANGED ctBuf
       ELSE Logged("extract_min", ctBuf[1][2], ctBuf[1][1], "None")
            /\ ctBuf' = list_pop(ctBuf, 0)
    /\ UNCHANGED <<ctCopy, ctKind, ctStr>>
    /\ UNCHANGED notContainerVars

\* q.minimum()
PriorityQueueMinimum ==
    /\ CanCall("PriorityQueue")
    /\ IF Len(ctBuf) = 0
       THEN Logged("minimum", 0, 0, UnderflowError("PriorityQueue"))
       ELSE Logged("minimum", ctBuf[1][2], ctBuf[1][1], "None")
    /\ UNCHANGED <<ctCopy, ctKind, ctBuf, ctStr>>
    /\ UNCHANGED notContainerVars

\* q.decrease_key(element, new_priority)
PriorityQueueDecreaseKey(element, new_priority) ==
    /\ CanCall("PriorityQueue")
    /\ LET r == PriorityQueue_decrease_key(ctBuf, element, new_priority)
       IN /\ ctBuf' = r.buf
          /\ Logged("decrease_key", element, new_priority, r.raised)
    /\ UNCHANGED <<ctCopy, ctKind, ctStr>>
    /\ UNCHANGED notContainerVars

\* size() of any of the three
ContainerSize ==
    /\ ctKind \in ContainerKinds /\ Len(ctHist) < MaxContainerOps
    /\ Logged("size", Len(ctBuf), 0, "None")
    /\ UNCHANGED <<ctCopy, ctKind, ctBuf, ctStr>>
    /\ UNCHANGED notContainerVars

\* to_cormen_string(s) or to_cormen_string(q)
ContainerToString ==
    /\ ctKind \in {"Stack", "Queue"} /\ Len(ctHist) < MaxContainerOps
    /\ LET r == IF ctKind = "Queue" THEN queue_to_string(ctBuf)
                ELSE stack_to_string(ctBuf)
       IN ctBuf' = r.buf /\ ctStr' = r.str
    /\ Logged("to_cormen_string", 0, 0, "None")
    /\ UNCHANGED <<ctCopy, ctKind>>
    /\ UNCHANGED notContainerVars

\* copy_stack(s)
StackCopy ==
    /\ CanCall("Stack")
    /\ LET r == copy_stack(ctBuf)
       IN ctBuf' = r.s /\ ctCopy' = r.cpy
    /\ Logged("copy_stack", 0, 0, "None")
    /\ UNCHANGED <<ctKind, ctStr>>
    /\ UNCHANGED notContainerVars

ContainerNext ==
    \/ StackPush
    \/ StackPop
    \/ StackTop
    \/ QueueEnqueue
    \/ QueueDequeue
    \/ QueueFront
    \/ \E e \in Elems, p \in Priorities : PriorityQueueInsert(e, p)
    \/ PriorityQueueExtractMin
    \/ PriorityQueueMinimum
    \/ \E e \in Elems, p \in Priorities : PriorityQueueDecreaseKey(e, p)
    \/ ContainerSize
    \/ ContainerToString
    \/ StackCopy

\* ------------------------------------------------------------ __append_int

OrdinalInit ==
    /\ ordNum \in 1..MaxOrdinal
    /\ ordRet = "none"

OrdinalIdle ==
    /\ ordNum = 0
    /\ ordRet = "none"

\* __append_int(num)
CallAppendInt ==
    /\ ordNum > 0 /\ ordRet = "none"
    /\ ordRet' = append_int(ordNum)
    /\ UNCHANGED ordNum
    /\ UNCHANGED notOrdinalVars

\* ---------------------------------------------------------------------- Set

\* The two Set objects, and the elements given to them.
SetObjects == {1, 2}

SetElems == {1, 2, 3}

InDict(d, k) == \E i \in 1..Len(d) : d[i] = k

\* dict.pop(k) of a key that is there.
dict_pop(d, k) == SelectSeq(d, LAMBDA x : x # k)

\* A dict whose update moves a key that is there to the end.
dict_set_Moves(d, k) == dict_pop(d, k) \o <<k>>

\* d[k] = None: a new key goes last, a key that is there keeps its place.
dict_set(d, k) == IF InDict(d, k) THEN d ELSE d \o <<k>>

\* Set.union: self.__set.update(other_set.__set), key i of the other dict
\* onwards.
RECURSIVE union_loop(_, _, _, _)
union_loop(objs, self, other, i) ==
    IF i > Len(objs[other]) THEN objs
    ELSE union_loop([objs EXCEPT ![self] = dict_set(@, objs[other][i])],
                    self, other, i + 1)

\* Set.difference: `for k in other_set.__set`, from key i on.  The iterator
\* raises RuntimeError when the dict it walks is no longer of the size
\* `used` it had when the loop began.
RECURSIVE difference_loop(_, _, _, _, _)
difference_loop(objs, self, other, i, used) ==
    IF Len(objs[other]) # used
    THEN [objs |-> objs, raised |-> "RuntimeError"]
    ELSE IF i > Len(objs[other])
    THEN [objs |-> objs, raised |-> "None"]
    ELSE LET k == objs[other][i]
         IN difference_loop(IF InDict(objs[self], k)
                            THEN [objs EXCEPT ![self] = dict_pop(@, k)]
                            ELSE objs,
                            self, other, i + 1, used)

SetInit ==
    /\ \E e1 \in SeqsOver(SetElems, 2), e2 \in SeqsOver(SetElems, 2) :
          stObjs = <<Set_init(e1), Set_init(e2)>>
    /\ stOps = 0
    /\ stOp = [op |-> "none", self |-> 0, other |-> 0, raised |-> "None"]
    /\ stIter = <<>>

SetIdle ==
    /\ stObjs = <<>>
    /\ stOps = 0
    /\ stOp = [op |-> "idle", self |-> 0, other |-> 0, raised |-> "None"]
    /\ stIter = <<>>

\* s.union(t), s and t any of the two objects
SetUnion(s, t) ==
    /\ stOp.op # "idle" /\ stOps < MaxSetOps
    /\ stObjs' = union_loop(stObjs, s, t, 1)
    /\ stOp' = [op |-> "union", self |-> s, other |-> t, raised |-> "None"]
    /\ stOps' = stOps + 1
    /\ UNCHANGED stIter
    /\ UNCHANGED notSetVars

\* s.difference(t), s and t any of the two objects
SetDifference(s, t) ==
    /\ stOp.op # "idle" /\ stOps < MaxSetOps
    /\ LET r == difference_loop(stObjs, s, t, 1, Len(stObjs[t]))
       IN /\ stObjs' = r.objs
          /\ stOp' = [op |-> "difference", self |-> s, other |-> t,
                      raised |-> r.raised]
    /\ stOps' = stOps + 1
    /\ UNCHANGED stIter
    /\ UNCHANGED notSetVars

\* list(s): __iter__ yields from the dict
SetIterate(s) ==
    /\ stOp.op # "idle" /\ stOps < MaxSetOps
    /\ stIter' = stObjs[s]
    /\ stOp' = [op |-> "iter", self |-> s, other |-> 0, raised |-> "None"]
    /\ stOps' = stOps + 1
    /\ UNCHANGED stObjs
    /\ UNCHANGED notSetVars

SetNext ==
    \/ \E s \in SetObjects, t \in SetObjects : SetUnion(s, t)
    \/ \E s \in SetObjects, t \in SetObjects : SetDifference(s, t)
    \/ \E s \in SetObjects : SetIterate(s)

\* --------------------------------------------------------- specifications

Init == RunnerInit /\ EqualsIdle /\ GenericIdle /\ ChainIdle /\ ValuesIdle
    /\ BehaviorIdle
    /\ GraphIdle
    /\ TreeIdle
    /\ ContainerIdle
    /\ OrdinalIdle
    /\ SetIdle

Next == RunnerNext

Spec == Init /\ [][Next]_vars

InitEquals == RunnerIdle /\ EqualsInit /\ GenericIdle /\ ChainIdle /\ ValuesIdle
    /\ BehaviorIdle
    /\ GraphIdle
    /\ TreeIdle
    /\ ContainerIdle
    /\ OrdinalIdle
    /\ SetIdle

NextEquals == CallEquals

SpecEquals == InitEquals /\ [][NextEquals]_vars

InitGeneric == RunnerIdle /\ EqualsIdle /\ GenericInit /\ ChainIdle /\ ValuesIdle
    /\ BehaviorIdle
    /\ GraphIdle
    /\ TreeIdle
    /\ ContainerIdle
    /\ OrdinalIdle
    /\ SetIdle

NextGeneric == GenericNext

SpecGeneric == InitGeneric /\ [][NextGeneric]_vars

InitChain == RunnerIdle /\ EqualsIdle /\ GenericIdle /\ ChainInit /\ ValuesIdle
    /\ BehaviorIdle
    /\ GraphIdle
    /\ TreeIdle
    /\ ContainerIdle
    /\ OrdinalIdle
    /\ SetIdle

NextChain == ChainNext

SpecChain == InitChain /\ [][NextChain]_vars

InitValues ==
    RunnerIdle /\ EqualsIdle /\ GenericIdle /\ ChainIdle /\ ValuesInit
    /\ BehaviorIdle
    /\ GraphIdle
    /\ TreeIdle
    /\ ContainerIdle
    /\ OrdinalIdle
    /\ SetIdle

NextValues == CallValueEquals

SpecValues == InitValues /\ [][NextValues]_vars

InitBehavior ==
    RunnerIdle /\ EqualsIdle /\ GenericIdle /\ ChainIdle /\ ValuesIdle
    /\ BehaviorInit
    /\ GraphIdle
    /\ TreeIdle
    /\ ContainerIdle
    /\ OrdinalIdle
    /\ SetIdle

NextBehavior == BehaviorNext

SpecBehavior == InitBehavior /\ [][NextBehavior]_vars

\* The body of a test calls generic_test, or behavior_test, once.
InitHarness ==
    /\ RunnerIdle /\ EqualsIdle /\ ChainIdle /\ ValuesIdle
    /\ \/ GenericInit /\ BehaviorIdle
       \/ GenericIdle /\ BehaviorInit
    /\ GraphIdle
    /\ TreeIdle
    /\ ContainerIdle
    /\ OrdinalIdle
    /\ SetIdle

NextHarness ==
    \/ btPc = "idle" /\ GenericNext
    \/ BehaviorNext

SpecHarness == InitHarness /\ [][NextHarness]_vars

InitGraph ==
    RunnerIdle /\ EqualsIdle /\ GenericIdle /\ ChainIdle /\ ValuesIdle
    /\ BehaviorIdle
    /\ GraphInit
    /\ TreeIdle
    /\ ContainerIdle
    /\ OrdinalIdle
    /\ SetIdle

NextGraph == GraphNext

SpecGraph == InitGraph /\ [][NextGraph]_vars

InitTree ==
    RunnerIdle /\ EqualsIdle /\ GenericIdle /\ ChainIdle /\ ValuesIdle
    /\ BehaviorIdle
    /\ GraphIdle
    /\ TreeInit
    /\ ContainerIdle
    /\ OrdinalIdle
    /\ SetIdle

NextTree == TreeNext

SpecTree == InitTree /\ [][NextTree]_vars

InitContainer ==
    RunnerIdle /\ EqualsIdle /\ GenericIdle /\ ChainIdle /\ ValuesIdle
    /\ BehaviorIdle
    /\ GraphIdle
    /\ TreeIdle
    /\ ContainerInit
    /\ OrdinalIdle
    /\ SetIdle

NextContainer == ContainerNext

SpecContainer == InitContainer /\ [][NextContainer]_vars

InitOrdinal ==
    RunnerIdle /\ EqualsIdle /\ GenericIdle /\ ChainIdle /\ ValuesIdle
    /\ BehaviorIdle
    /\ GraphIdle
    /\ TreeIdle
    /\ ContainerIdle
    /\ OrdinalInit
    /\ SetIdle

NextOrdinal == CallAppendInt

SpecOrdinal == InitOrdinal /\ [][NextOrdinal]_vars

InitSet ==
    RunnerIdle /\ EqualsIdle /\ GenericIdle /\ ChainIdle /\ ValuesIdle
    /\ BehaviorIdle
    /\ GraphIdle
    /\ TreeIdle
    /\ ContainerIdle
    /\ OrdinalIdle
    /\ SetInit

NextSet == SetNext

SpecSet == InitSet /\ [][NextSet]_vars

\* The interpreter keeps running the function it entered.
SpecChainFair == SpecChain /\ WF_vars(NextChain)

\* ------------------------------------------------- claims: the batch runner

\* The position of test t in the watcher's lists (0 when it has none).
PosOf(t) ==
    IF \E k \in 1..Len(test_ids) : test_ids[k] = t
    THEN CHOOSE k \in 1..Len(test_ids) : test_ids[k] = t
    ELSE 0

\* The details the watcher keeps of test t.
DetailsOf(t) ==
    {k \in 1..Len(details) : details[k][Len(details[k])] = t}

\* The batch has stopped before its report: an exception left the loop, or the
\* parent sits in candidate code that never returns.
BatchStopped == pc \in {"aborted", "hung"}

\* C1: a test still running after `timeout` seconds is terminated, has exactly
\* one not-passed timeout outcome recorded, with nothing kept of the partial
\* run, and the batch goes on: it is not stopped by the timeout, and at its
\* end every test of the batch has its own recorded outcome.
C1_TimeoutIsolated ==
    /\ \A t \in timedOut :
         /\ Count(test_ids, t) = 1
         /\ results[PosOf(t)] = 0
         /\ Cardinality(DetailsOf(t)) = 1
         /\ \A k \in DetailsOf(t) : details[k][2] = "_TestTimeoutError"
         /\ childOutcome[t] = "none" /\ parentRuns[t] = 0
         /\ (t = idx => child = "terminated")
    /\ (timedOut # {} => ~BatchStopped)
    /\ (pc = "done" => \A t \in Tests : Count(test_ids, t) = 1)

\* C2: in one batch run each test's entry point is invoked exactly once, with
\* or without a timeout, and the recorded outcome is that invocation's.
C2_InvokedOnce ==
    \A t \in Tests :
        /\ childRuns[t] + parentRuns[t] <= 1
        /\ (PosOf(t) # 0 => childRuns[t] + parentRuns[t] = 1)

\* C3: with a timeout configured the parent never executes candidate code on
\* its own thread of control, and is never left waiting without bound.
C3_ParentOnlyJoins ==
    timeout # "None" =>
        /\ \A t \in Tests : parentRuns[t] = 0
        /\ pc \notin {"parent", "hung"}

\* C4: recording an outcome raises nothing, whatever the outcome and whatever
\* show_tb is, and a finished batch has reported on every test.
C4_NoOutcomeAborts ==
    /\ raised = "None"
    /\ pc # "aborted"
    /\ (pc = "done" =>
          /\ report.kind \in {"log", "columns"}
          /\ Len(test_ids) = NTests)

\* C5: the identifier list and the flag list have the same length and the
\* order of execution, each recorded test has one identifier and one flag,
\* the flag is 1 iff the test passed, there are as many details as 0 flags,
\* and the log's tally is (number of 1 flags)/(number of recorded tests).
C5_AggregatorConsistent ==
    /\ Len(test_ids) = Len(results)
    /\ \A k \in 1..Len(test_ids) : test_ids[k] = k
    /\ \A k \in 1..Len(results) :
         /\ results[k] \in {0, 1}
         /\ (results[k] = 1 <=> parentOutcome[test_ids[k]] = "pass")
    /\ Len(details) = Count(results, 0)
    /\ (report.kind = "log" =>
          /\ report.passed = Count(results, 1)
          /\ report.total = Len(test_ids))
    /\ (report.kind = "columns" =>
          /\ report.header = test_ids /\ report.row = results)

\* ---------------------------------------------------- claims: generic_test

Called == gtOutcome.status # "none"

\* The candidate returned normally.
Returned == Called /\ gtMethod.raises = "None"

NArgs == Len(gtParams.items)

\* The arguments as the candidate left them.
PostCall == PostItems(gtParams.items, gtMethod)

\* The post-call argument: what an in-place test compares with `expected`.
PostArgument == IF gtParams.is_list THEN ListVal(PostCall) ELSE PostCall[1]

\* The flag of each argument position.
FlagOf(i) ==
    IF gtNoMod.is_bool THEN gtNoMod.flag
    ELSE i <= Len(gtNoMod.flags) /\ gtNoMod.flags[i]

\* Every flag is the flag of an argument.
FlagsFit == gtNoMod.is_bool \/ Len(gtNoMod.flags) <= NArgs

\* The flagged arguments the candidate changed.
ChangedFlagged == {i \in 1..NArgs : FlagOf(i) /\ gtMethod.effects[i] # "keep"}

\* The value generic_test compares with `expected` is accepted by the
\* comparator in use.
ResultAccepted ==
    Compare(gtComparator, gtExpected,
            IF gtInPlace THEN PostArgument
            ELSE ReturnValue(gtMethod, PostCall)) = "True"

\* C6: when `expected` is an exception type, generic_test succeeds iff the
\* candidate raises an instance of that type; a candidate that returns
\* normally fails, whatever it returns and whatever the comparator.
C6_ExpectedExceptionIff ==
    (Called /\ gtExpected.kind = "type") =>
        (gtOutcome.status = "pass" <=>
            (gtMethod.raises # "None"
             /\ IsInstance(gtMethod.raises, gtExpected.name)))

\* C7: a mutation violation is reported only when a flagged argument changed:
\* a candidate that returns the expected value and leaves every flagged
\* argument as it was passes, whatever the class of the arguments.
C7_UnchangedPasses ==
    /\ (Returned /\ FlagsFit /\ ResultAccepted /\ ChangedFlagged = {})
          => gtOutcome.status = "pass"
    /\ (Called /\ gtOutcome.kind = "mutation")
          => gtOutcome.ordinal \in ChangedFlagged

\* C8: with a list of flags, a candidate whose result is accepted and which
\* changed a flagged argument fails with a message that names the position of
\* the lowest flagged argument that changed and shows the arguments as they
\* are after the call; with no flagged argument changed there is no such
\* failure.
C8_NamesLowestChanged ==
    (Returned /\ ~gtNoMod.is_bool /\ FlagsFit /\ ResultAccepted) =>
        IF ChangedFlagged # {}
        THEN /\ gtOutcome.status = "fail"
             /\ gtOutcome.kind = "mutation"
             /\ gtOutcome.ordinal \in ChangedFlagged
             /\ \A i \in ChangedFlagged : gtOutcome.ordinal <= i
             /\ gtOutcome.suffix = append_int(gtOutcome.ordinal)
             /\ gtOutcome.arguments = to_cormen_string(PostArgument)
        ELSE gtOutcome.status = "pass"

\* The candidate of an in-place test returned a value other than None.
InPlaceReturned == Returned /\ gtInPlace /\ gtMethod.ret # "None"

NoFlagSet == \A i \in 1..MaxArgs : ~FlagOf(i)

RECURSIVE Walk(_, _)
Walk(n, k) == IF n = Nil \/ k = 0 THEN n ELSE Walk(chNext[n], k - 1)

\* The chain that starts at n never ends.
Cyclic(n) == Walk(n, MaxNodes) # Nil

\* The data held along a chain that ends, from n on.
RECURSIVE DataFrom(_, _)
DataFrom(n, k) ==
    IF n = Nil \/ k = 0 THEN <<>>
    ELSE <<chData[n]>> \o DataFrom(chNext[n], k - 1)

ChainData(n) == DataFrom(n, MaxNodes)

ChainDone(op) == chPc = "done" /\ chOp = op

\* C13: for two chains that end and share no node object, cormen_equals is
\* True iff they have the same length and hold equal data at every position.
C13_ChainStructural ==
    (/\ ChainDone("equals")
     /\ ~Cyclic(chFirst) /\ ~Cyclic(chSecond)
     /\ Reach(chFirst) \cap Reach(chSecond) = {})
        => (chRet = "True" <=> ChainData(chFirst) = ChainData(chSecond))

\* What C14 says of every state: the loops take no more turns than there are
\* nodes; a chain with a cycle never equals a chain that ends; the rendering
\* of a chain lists each of its nodes once, in order, and ends with "cycle"
\* exactly when the walk came back to a node.
ChainBounded ==
    /\ Cardinality(chSeen) <= MaxNodes
    /\ Len(chOut) <= MaxNodes + 1
    /\ (ChainDone("equals") /\ Cyclic(chFirst) # Cyclic(chSecond))
          => chRet = "False"
    /\ ChainDone("to_string") =>
          LET n == Cardinality(Reach(chFirst))
          IN /\ Len(chOut) = IF Cyclic(chFirst) THEN n + 1 ELSE n
             /\ \A i \in 1..n : chOut[i] = ToString(chData[Walk(chFirst, i - 1)])
             /\ Cyclic(chFirst) => chOut[n + 1] = "cycle"

\* C14: equality and rendering of chains end for every input, cyclic or not:
\* chains with a cycle in `expected`, in `actual` or in both; a chain with a
\* cycle never equals one that ends, and the rendering of a cyclic chain ends
\* after the first node met again.
C14_ChainTerminates == [](ChainBounded) /\ <>(chPc = "done")

\* The comparison of a node that is its own `next` with a chain that ends has
\* returned False.
C14_Witness ==
    /\ ChainDone("equals")
    /\ chFirst = 1 /\ chNext[1] = 1
    /\ chSecond # Nil /\ ~Cyclic(chSecond)
    /\ chRet = "False"


\* ------------------------------------------------- claims: behavior_test

\* The steps whose turn of the loop was taken.
Executed ==
    {k \in 1..Len(btBehavior) : k < btIdx \/ (btPc = "done" /\ k = btIdx)}

Entered == {btInvoked[k] : k \in 1..Len(btInvoked)}

\* Step k did what it expects: its method returned the expected value, or
\* raised an instance of the expected exception class.
StepMatched(k) ==
    LET ev == btBehavior[k]
        call == CallOf(ev)
    IN IF call.raised = "None" THEN call.ret = ev.expected
       ELSE call.raised = ev.expected

\* The step whose call raised, 0 if none did.
RaisingStep ==
    IF btPc = "done" /\ btIdx <= Len(btBehavior)
       /\ CallOf(btBehavior[btIdx]).raised # "None"
    THEN btIdx ELSE 0

\* C17: the methods are invoked in the order of the list; after a step whose
\* result is not the expected one no method is invoked; behavior_test
\* returns without AssertionError only if every step executed matched.
C17_StopsAtFirstMismatch ==
    /\ \A k \in 1..Len(btInvoked) : btInvoked[k] = k
    /\ \A k \in Executed : \A j \in 1..(k - 1) : StepMatched(j)
    /\ \A k \in Entered : k \in Executed
    /\ btOutcome.status = "pass" => \A k \in Executed : StepMatched(k)
    /\ (btPc = "done" /\ \E k \in Executed : ~StepMatched(k))
          => btOutcome.status = "fail"

\* The first of two steps returned a value that is not the expected one:
\* behavior_test failed and the second method was never invoked.
C17_Witness ==
    /\ btPc = "done"
    /\ Len(btBehavior) = 2
    /\ btBehavior[1].expected = "1"
    /\ CallOf(btBehavior[1]).raised = "None"
    /\ CallOf(btBehavior[1]).ret = "None"
    /\ btInvoked = <<1>>
    /\ btOutcome.status = "fail"
    /\ btOutcome.kind = "mismatch"

\* C18: a step that expects an exception class and whose method raises an
\* instance of it ends behavior_test successfully at once, the steps after it
\* not executed; a step that raises anything else fails behavior_test with an
\* AssertionError whose message is the lines of the steps so far followed by
\* "Unexpected error: " and the name of the class of the exception.
C18_ExpectedExceptionEnds ==
    RaisingStep # 0 =>
        LET k == RaisingStep
            ev == btBehavior[k]
            exc == CallOf(ev).raised
        IN /\ Executed = 1..k
           /\ \A j \in Entered : j <= k
           /\ IF ev.expected = exc
              THEN /\ btOutcome.status = "pass"
                   /\ Len(btMsg) = k + 1
              ELSE /\ btOutcome.status = "fail"
                   /\ btOutcome.exc = exc
                   /\ Len(btMsg) = k + 2
                   /\ btMsg[k + 2] = MsgText("error", exc)
           /\ \A j \in 1..k :
                /\ btMsg[j + 1].line = "call"
                /\ btMsg[j + 1].step = j
                /\ btMsg[j + 1].mark = IF j < k THEN "ok" ELSE "bad"

\* The first of two steps expected ValueError and its method raised it:
\* behavior_test returned and the second step was not executed.
C18_Witness ==
    /\ RaisingStep = 1
    /\ Len(btBehavior) = 2
    /\ btBehavior[1].expected = "ValueError"
    /\ btBehavior[1].act = "ValueError"
    /\ btInvoked = <<1>>
    /\ btOutcome.status = "pass"

\* C19: a step whose METHOD requires two parameters and whose PARAMETERS is a
\* tuple (x, y) has METHOD entered with x and y, and its result checked
\* against RESULT.
C19_TupleIsUnpacked ==
    \A k \in Executed :
        (btBehavior[k].arity = 2 /\ btBehavior[k].params = "tuple") =>
            /\ k \in Entered
            /\ (btBehavior[k].act = btBehavior[k].expected /\ btPc = "done"
                /\ k = Len(btBehavior) /\ \A j \in 1..k : StepMatched(j))
                  => btOutcome.status = "pass"

\* --------------------------------------------------- claims: test bodies

\* The candidate run by generic_test raised an exception that is not the
\* expected one.
GenericFault ==
    /\ gtOutcome.status # "none"
    /\ gtMethod.raises # "None"
    /\ ~(gtExpected.kind = "type" /\ gtMethod.raises = gtExpected.name)

\* A method run by behavior_test raised an exception that is not the
\* expected one.
BehaviorFault ==
    /\ RaisingStep # 0
    /\ CallOf(btBehavior[RaisingStep]).raised # btBehavior[RaisingStep].expected

\* C20 as stated: an exception of the candidate that is not the expected one
\* is recorded as an error.
C20_FaultIsErrored ==
    /\ GenericFault => gtOutcome.status = "error"
    /\ BehaviorFault => btOutcome.status = "error"

\* What the aggregator holds after a test that ended with `status`.
Recorded(status) == Record(Watcher, 1, status).w

\* C20 as amended: an exception of the candidate that is not the expected
\* one ends generic_test and behavior_test with an AssertionError: the test
\* is recorded as failed, never as an error, in a record with the message of
\* the assertion and no exception class; the message of behavior_test ends
\* with "Unexpected error: " and the name of the exception's class.
C20_FaultIsFailure ==
    /\ GenericFault =>
          /\ gtOutcome.status = "fail"
          /\ gtOutcome.kind = "unexpected"
          /\ gtOutcome.exc = "AssertionError"
          /\ Recorded(gtOutcome.status).results = <<0>>
          /\ Len(Recorded(gtOutcome.status).details[1]) = 3
    /\ BehaviorFault =>
          /\ btOutcome.status = "fail"
          /\ btOutcome.kind = "unexpected"
          /\ btMsg[Len(btMsg)] =
                MsgText("error", CallOf(btBehavior[RaisingStep]).raised)
          /\ Recorded(btOutcome.status).results = <<0>>
          /\ Len(Recorded(btOutcome.status).details[1]) = 3

\* generic_test ended as a failure after its candidate raised TypeError
\* where a value was expected.
C20_Witness ==
    /\ GenericFault
    /\ gtMethod.raises = "TypeError"
    /\ gtExpected.kind = "int"
    /\ gtOutcome.status = "fail"

\* --------------------------------------------- claims: Arrays and Sets

ValueCalled(kind) == valRet \notin {"none", "idle"} /\ valFirst.kind = kind

\* Two elements of Arrays are equal by content: equal ints, or Arrays that
\* hold equal elements.
ContentEqual(v, w) ==
    IF v \in Refs /\ w \in Refs THEN valStore[v] = valStore[w] ELSE v = w

\* C15: cormen_equals on two Arrays is True iff they have the same length
\* and at every index hold elements equal by content, Arrays held as
\* elements included; hence changing one element of one of two equal Arrays
\* into an unequal value makes the result False.
C15_ArrayElementwise ==
    (ValueCalled("Array") \/ ValueCalled("Array2D")) =>
        (valRet = "True" <=>
            /\ Len(valFirst.elems) = Len(valSecond.elems)
            /\ \A i \in 1..Len(valFirst.elems) :
                  ContentEqual(valFirst.elems[i], valSecond.elems[i]))

\* The elements of a Set, whatever the order of insertion.
Members(x) == {x.elems[i] : i \in 1..Len(x.elems)}

\* C16: two Sets are equal iff they hold the same elements, whatever the
\* order of insertion; the rendering of a Set lists its elements in the order
\* of insertion, so Sets inserted in different orders render differently.
C16_SetOrderIndependent ==
    ValueCalled("Set") =>
        /\ valRet = "True" <=> Members(valFirst) = Members(valSecond)
        /\ valStr[1][1] = "{}"
        /\ \A k \in 1..2 :
             LET x == IF k = 1 THEN valFirst ELSE valSecond
             IN /\ Len(valStr[k][2]) = Len(x.elems)
                /\ \A i \in 1..Len(x.elems) :
                      valStr[k][2][i] = <<"str", <<x.elems[i]>>>>
        /\ valFirst.elems # valSecond.elems => valStr[1] # valStr[2]

\* Set(1, 2) and Set(2, 1) compared equal and rendered differently.
C16_Witness ==
    /\ ValueCalled("Set")
    /\ valFirst.elems = <<1, 2>>
    /\ valSecond.elems = <<2, 1>>
    /\ valRet = "True"
    /\ valStr[1] # valStr[2]

\* ------------------------------------------- claims: Queue and Stack equality

\* C10: for two distinct Queues, or two distinct Stacks, when cormen_equals
\* returns, equal or not, sizes matching or not, both operands hold the
\* elements they held before the call, in the same order.
C10_OperandsRestored ==
    (eqFirst # eqSecond /\ eqRet \in {"True", "False"}) => heap = eqPre

\* C11: cormen_equals(s, s), the same Stack or Queue as both operands,
\* returns True on every call and leaves s with the size, the front or top
\* and the elements, in their order, that it had before the call.
C11_SelfEqualsKeeps ==
    (eqFirst = eqSecond /\ eqRet # "none") =>
        /\ eqRet = "True"
        /\ heap[eqFirst] = eqPre[eqFirst]

\* C12: cormen_equals returns a boolean and raises nothing; two Queues, or
\* two Stacks, of different sizes compare as unequal whichever is longer.
C12_EqualsTotal ==
    (eqRet # "none") =>
        /\ eqRet \in {"True", "False"}
        /\ (eqFirst # eqSecond /\ Len(eqPre[eqFirst]) # Len(eqPre[eqSecond]))
              => eqRet = "False"

\* ------------------------------------------------------------ claims: Graph

\* The destinations of a list of add_edge calls, each at its first call.
RECURSIVE FirstCalls(_)
FirstCalls(log) ==
    IF log = <<>> THEN <<>>
    ELSE LET rest == FirstCalls(SubSeq(log, 1, Len(log) - 1))
         IN IF \E i \in 1..Len(rest) : rest[i] = log[Len(log)] THEN rest
            ELSE Append(rest, log[Len(log)])

\* C21: adj(v) returns the destinations of the edges that leave v in the
\* order in which the edges were created, each destination once.
C21_AdjInCreationOrder ==
    (grOp = "adj" /\ grRaised = "None") => grRet = FirstCalls(grLog[grArg])

\* The line of vertex v that C22 describes.
LineOf(v) ==
    LET ds == FirstCalls(grLog[v])
    IN v \o ": " \o
       join(", ", [j \in 1..Len(ds) |->
                     IF grWeights[<<v, ds[j]>>] = "None" THEN ds[j]
                     ELSE ds[j] \o " <" \o grWeights[<<v, ds[j]>>] \o ">"])

\* C22: the rendering of a Graph has one line per vertex, in the order in
\* which the vertices were added; a line is `name: dest1 <weight1>, dest2`,
\* the destinations in the order in which the edges were added, `<weight>`
\* left out exactly when the weight is None.
C22_GraphRendering ==
    (grOp = "to_cormen_string" /\ grImpl = "cormen_lib") =>
        grStr = join("\n", [i \in 1..Len(grVertices) |-> LineOf(grVertices[i])])

C22_Witness ==
    /\ grOp = "to_cormen_string" /\ grImpl = "cormen_lib"
    /\ grVertices = <<"b", "a">>
    /\ grLog["b"] = <<"b", "a", "b">>
    /\ grStr = "b: b <1>, a\na: "

\* ------------------------------------------------------ claims: binary tree

\* The entries of one level, left to right: an entry for the root and for
\* each child position of a node, a placeholder where no node is.
LevelEntries(d) ==
    LET ps == [i \in 1..Pow2(d) |-> Pow2(d) + i - 1]
        has(i) == ps[i] = 1 \/ ps[i] \div 2 \in trNodes
    IN SelectSeq([i \in 1..Pow2(d) |->
                    IF ~has(i) THEN "skip"
                    ELSE IF ps[i] \in trNodes
                    THEN "'" \o ToString(ps[i]) \o "'"
                    ELSE "None"],
                 LAMBDA x : x # "skip")

RECURSIVE LevelOrder(_)
LevelOrder(d) ==
    IF d > MaxDepth THEN <<>> ELSE LevelEntries(d) \o LevelOrder(d + 1)

\* The level order encoding without the placeholders it ends with.
RECURSIVE Encoding(_)
Encoding(xs) ==
    IF xs # <<>> /\ xs[Len(xs)] = "None"
    THEN Encoding(SubSeq(xs, 1, Len(xs) - 1)) ELSE xs

\* C23: the rendering of a binary tree lists the data level by level, left
\* to right, with one placeholder for each absent child of a node, every
\* entry of a level visited, and no placeholder at the end.
C23_LevelOrder ==
    (trPc = "done" /\ 1 \in trNodes) =>
        /\ trOut = Encoding(LevelOrder(0))
        /\ trOut[Len(trOut)] # "None"
        /\ trStr = "[" \o join(", ", trOut) \o "]"

C23_Witness ==
    trPc = "done" /\ trNodes = {1, 2} /\ trStr = "['1', '2']"

\* ------------------------------- claims: Stack, Queue and PriorityQueue

\* The last call made on the container.
LastCall == ctHist[Len(ctHist)]

\* C24: when to_cormen_string of a Queue or of a Stack returns, the
\* container holds the elements it held before the call, in the same order.
C24_RenderingReadOnly ==
    [][(ctKind \in {"Stack", "Queue"} /\ Len(ctHist') > Len(ctHist)
        /\ ctHist'[Len(ctHist')].op = "to_cormen_string")
       => ctBuf' = ctBuf]_vars

C24_Witness ==
    /\ ctKind = "Stack" /\ Len(ctHist) = 3
    /\ LastCall.op = "to_cormen_string"
    /\ ctBuf = <<1, 2>>
    /\ ctStr = "[1, 2]"

\* The objects put in before call i and not taken out before it.
LiveBefore(i, putOp, takeOp) ==
    {ctHist[j].val : j \in {k \in 1..(i - 1) : ctHist[k].op = putOp}}
    \ {ctHist[j].val : j \in {k \in 1..(i - 1) :
                               ctHist[k].op = takeOp /\ ctHist[k].raised = "None"}}

Newest(S) == CHOOSE x \in S : \A y \in S : y <= x

Oldest(S) == CHOOSE x \in S : \A y \in S : x <= y

PutOps == {"push", "enqueue", "insert"}
TakeOps == {"pop", "dequeue", "extract_min"}
PeekOps == {"top", "front", "minimum"}

\* The number of objects in the container before call i.
HeldBefore(i) ==
    Cardinality({k \in 1..(i - 1) : ctHist[k].op \in PutOps})
    - Cardinality({k \in 1..(i - 1) :
                     ctHist[k].op \in TakeOps /\ ctHist[k].raised = "None"})

\* The error of the class of the container.
ErrorOf ==
    CASE ctKind = "Stack" -> "StackUnderflowError"
      [] ctKind = "Queue" -> "QueueUnderflowError"
      [] ctKind = "PriorityQueue" -> "PriorityQueueUnderflowError"
      [] OTHER -> "none"

\* C29: taking from, or looking at, an empty Stack, Queue or PriorityQueue
\* raises the underflow error of the class and leaves the container empty
\* and usable: an object put in next is the one the next call returns.
C29_UnderflowKeepsUsable ==
    \A i \in 1..Len(ctHist) :
        ctHist[i].op \in TakeOps \cup PeekOps =>
            /\ HeldBefore(i) = 0 <=> ctHist[i].raised = ErrorOf
            /\ HeldBefore(i) > 0 <=> ctHist[i].raised = "None"
            /\ (i = Len(ctHist) /\ ctHist[i].raised = ErrorOf) => ctBuf = <<>>
            /\ (/\ ctHist[i].raised = ErrorOf
                /\ i + 2 <= Len(ctHist)
                /\ ctHist[i + 1].op \in PutOps
                /\ ctHist[i + 2].op \in TakeOps \cup PeekOps)
               => /\ ctHist[i + 2].raised = "None"
                  /\ ctHist[i + 2].val = ctHist[i + 1].val

C29_Witness ==
    /\ ctKind = "PriorityQueue" /\ Len(ctHist) = 4
    /\ [i \in 1..4 |-> ctHist[i].op]
         = <<"extract_min", "minimum", "insert", "extract_min">>
    /\ ctHist[1].raised = "PriorityQueueUnderflowError"
    /\ ctHist[2].raised = "PriorityQueueUnderflowError"
    /\ ctHist[4].raised = "None" /\ ctHist[4].val = ctHist[3].val
    /\ ctBuf = <<>>

Executing(t) ==
    \/ idx = t /\ pc = "join" /\ child = "running"
    \/ idx = t /\ pc \in {"parent", "hung"}
    \/ t \in lingering

\* Test t was started.
Started(t) == childRuns[t] + parentRuns[t] > 0

\* No test is started before the outcome of the test before it is in the
\* watcher.
StartsAfterRecord ==
    \A t \in Tests : Started(t) => \A u \in 1..(t - 1) : PosOf(u) # 0

\* C25: at every moment of a batch the code of at most one test is
\* executing, and a test starts only after the outcome of the previous test
\* was recorded.
C25_NeverConcurrent ==
    /\ Cardinality({t \in Tests : Executing(t)}) <= 1
    /\ StartsAfterRecord

\* ------------------------------------------------------ claims: the ordinal

\* C26: the suffix of the n-th argument is 'th' when n mod 100 is 11, 12 or
\* 13, otherwise 'st', 'nd', 'rd' for a last digit 1, 2, 3 and 'th' for any
\* other last digit.
C26_OrdinalSuffix ==
    ordRet # "none" =>
        ordRet = IF ordNum % 100 \in {11, 12, 13} THEN "th"
                 ELSE IF ordNum % 10 = 1 THEN "st"
                 ELSE IF ordNum % 10 = 2 THEN "nd"
                 ELSE IF ordNum % 10 = 3 THEN "rd"
                 ELSE "th"

C26_Witness == ordNum = 111 /\ ordRet = "th"

\* ---------------------------------------------------- claims: decrease_key

\* The position in buf of the entry decrease_key finds for element e (0 when
\* there is none), and buf without the entry at position k.
EntryOf(buf, e) ==
    IF \E i \in 1..Len(buf) : buf[i][2] = e
    THEN CHOOSE i \in 1..Len(buf) :
            buf[i][2] = e /\ \A j \in 1..(i - 1) : buf[j][2] # e
    ELSE 0

Without(buf, k) == SubSeq(buf, 1, k - 1) \o SubSeq(buf, k + 1, Len(buf))

\* C31: decrease_key(e, p) raises ValueError and leaves the queue as it was
\* when e is not in it or p is greater than the priority of e; otherwise the
\* size and every other entry stay as they were and e is held with priority
\* p, in priority order.
C31_DecreaseKey ==
    [][(ctKind = "PriorityQueue" /\ Len(ctHist') > Len(ctHist)
        /\ ctHist'[Len(ctHist')].op = "decrease_key")
       => LET e == ctHist'[Len(ctHist')].val
              p == ctHist'[Len(ctHist')].pri
              err == ctHist'[Len(ctHist')].raised
              k == EntryOf(ctBuf, e)
              bad == k = 0 \/ p > ctBuf[k][1]
          IN /\ bad => (err = "ValueError" /\ ctBuf' = ctBuf)
             /\ ~bad =>
                  /\ err = "None"
                  /\ Len(ctBuf') = Len(ctBuf)
                  /\ \E n \in 1..Len(ctBuf') :
                        /\ ctBuf'[n] = <<p, e>>
                        /\ Without(ctBuf', n) = Without(ctBuf, k)
                  /\ \A i, j \in 1..Len(ctBuf') :
                        i < j => ctBuf'[i][1] <= ctBuf'[j][1]]_vars

C31_Witness ==
    /\ ctKind = "PriorityQueue" /\ Len(ctHist) = 4
    /\ [i \in 1..4 |-> ctHist[i].op]
         = <<"insert", "insert", "decrease_key", "size">>
    /\ [i \in 1..4 |-> ctHist[i].val] = <<1, 2, 2, 2>>
    /\ [i \in 1..3 |-> ctHist[i].pri] = <<1, 3, 2>>
    /\ ctHist[3].raised = "None"
    /\ ctBuf = <<<<1, 1>>, <<2, 2>>>>

\* --------------------------------------------------------------- claims: Set

\* A call of the method op was just made on s with the other Set t.
SetCalled(op, s, t) ==
    /\ stOps' > stOps
    /\ stOp'.op = op /\ stOp'.self = s /\ stOp'.other = t

\* The members of a sequence of keys.
KeysOf(d) == {d[i] : i \in 1..Len(d)}

C37_SelfDifference ==
    [][\A s \in SetObjects :
         /\ SetCalled("difference", s, s) =>
              stOp'.raised = "None" /\ stObjs'[s] = <<>>
         /\ SetCalled("union", s, s) =>
              stOp'.raised = "None" /\ stObjs' = stObjs]_vars

\* --------------------------------------------------------- claims: copy_stack

\* C33: copy_stack(s) returns a Stack with the elements of s in their order
\* and leaves s with its elements in their order, for every stack.
C33_CopyStack ==
    [][(Len(ctHist') > Len(ctHist)
        /\ ctHist'[Len(ctHist')].op = "copy_stack")
       => (ctCopy' = ctBuf /\ ctBuf' = ctBuf)]_vars

C33_Witness ==
    /\ ctKind = "Stack" /\ Len(ctHist) = 4
    /\ ctHist[4].op = "copy_stack"
    /\ ctBuf = <<1, 2, 3>>
    /\ ctCopy = <<1, 2, 3>>


\* ------------------------------ claims: generic_test, exceptions and flags

\* The candidate raised an instance of the exception type `expected` is.
RaisedExpected ==
    /\ Called
    /\ gtExpected.kind = "type"
    /\ gtMethod.raises # "None"
    /\ IsInstance(gtMethod.raises, gtExpected.name)

\* C34: when `expected` is an exception type and the candidate raises an
\* instance of it, generic_test returns success and the mutation check is not
\* made, even with enforce_no_mod set and a flagged argument changed before
\* the exception was raised.
C34_MatchedExceptionSkipsMutationCheck ==
    RaisedExpected =>
        /\ gtOutcome.status = "pass"
        /\ gtOutcome.kind = "matched"
        /\ gtOutcome.ordinal = 0

\* The candidate changed a flagged argument, raised the expected exception,
\* and the test passed.
C34_Witness ==
    /\ RaisedExpected
    /\ ChangedFlagged # {}
    /\ gtOutcome.status = "pass"

\* params is a single value, not a list, and enforce_no_mod a list of more
\* than one flag.
SingleWithFlagList ==
    /\ Called
    /\ ~gtParams.is_list
    /\ ~gtNoMod.is_bool
    /\ Len(gtNoMod.flags) > 1

\* C35: generic_test called with a single non-list params and a list of more
\* than one enforce_no_mod flag is rejected as a configuration error: it ends
\* in an error, never in a pass or in a failure of the candidate.
C35_RejectedAtCallTime ==
    SingleWithFlagList => gtOutcome.status = "error"


\* ------------------------------------- claims: edge weights and adjacency

\* d is in the Set that adj(s) returns.
Adjacent(s, d) ==
    LET ds == Graph_adj(grImpl, grAdj[s])
    IN \E i \in 1..Len(ds) : ds[i] = d

\* weight(s, d) returns a value.
HasWeight(s, d) ==
    Graph_weight(grVertices, grWeights, s, d)
        \notin {"GraphVertexError", "GraphEdgeError"}

\* C36: in every state reached by add_vertex and add_edge calls, a vertex
\* added again included, for two vertices s and d of the Graph weight(s, d)
\* returns a value, and does not raise GraphEdgeError, iff d is in adj(s).
C36_WeightsMatchAdjacency ==
    \A s \in GraphNames : \A d \in GraphNames :
        (InGraph(grVertices, s) /\ InGraph(grVertices, d)) =>
            (HasWeight(s, d) <=> Adjacent(s, d))


\* ------------------------------------------- claims: PriorityQueue stability

\* The entry of S to be extracted first: the lowest priority, and among equal
\* priorities the one that received its priority first.
FirstOut(S) ==
    CHOOSE x \in S :
        \A y \in S : x.pri < y.pri \/ (x.pri = y.pri /\ x.since <= y.since)

\* The entries present after the first k calls of the history, each with its
\* priority and the number of the call that gave it that priority.
RECURSIVE Present(_)
Present(k) ==
    IF k = 0 THEN {}
    ELSE LET S == Present(k - 1)
             ev == ctHist[k]
             held == {y \in S : y.elem = ev.val}
         IN CASE ev.op = "insert" ->
                    S \cup {[elem |-> ev.val, pri |-> ev.pri, since |-> k]}
              [] ev.op = "extract_min" /\ ev.raised = "None" ->
                    S \ {FirstOut(S)}
              [] ev.op = "decrease_key" /\ ev.raised = "None"
                    /\ ev.pri < FirstOut(held).pri ->
                    (S \ {FirstOut(held)})
                        \cup {[elem |-> ev.val, pri |-> ev.pri, since |-> k]}
              [] OTHER -> S

\* C38: PriorityQueue is stable: after any sequence of insert, decrease_key
\* and extract_min, extract_min returns, among the elements present with the
\* lowest priority, the one that received that priority first, by an insert
\* or by a decrease_key to it.
C38_Stable ==
    ctKind = "PriorityQueue" =>
        \A k \in 1..Len(ctHist) :
            (ctHist[k].op = "extract_min" /\ ctHist[k].raised = "None") =>
                /\ Present(k - 1) # {}
                /\ ctHist[k].val = FirstOut(Present(k - 1)).elem
                /\ ctHist[k].pri = FirstOut(Present(k - 1)).pri

\* Element 1 came down to priority 2 after element 2 was inserted with it:
\* element 2 is extracted first.
C38_Witness ==
    /\ ctKind = "PriorityQueue" /\ Len(ctHist) = 4
    /\ [i \in 1..4 |-> ctHist[i].op]
         = <<"insert", "insert", "decrease_key", "extract_min">>
    /\ [i \in 1..4 |-> ctHist[i].val] = <<1, 2, 1, 2>>
    /\ [i \in 1..4 |-> ctHist[i].pri] = <<3, 2, 2, 2>>
    /\ ctHist[3].raised = "None"
    /\ ctBuf = <<<<2, 1>>>>

====
